---- MODULE Spec2Model ----
(***************************************************************************)
(* A model of the web agent's core pipeline (logroa/web-agent):            *)
(*   - FileDownloader (modules/action.py): bounded-concurrency downloads    *)
(*     with retries, safe file naming and size enforcement;                 *)
(*   - ReasoningEngine / RuleBasedFilter / LLMBasedFilter                   *)
(*     (modules/reasoning.py): the filter pipeline;                         *)
(*   - MemoryManager (modules/memory.py): the download history;             *)
(*   - AgentOrchestrator (modules/orchestrator.py): one cycle over sites.   *)
(*                                                                         *)
(* The store is called through `await` everywhere in the core and the      *)
(* tests stand an AsyncMock in for it, so it is modelled as an awaitable    *)
(* interface whose effects are those of modules/memory.py.                  *)
(***************************************************************************)
EXTENDS Integers, Sequences, FiniteSets, TLC

VARIABLES
    \* ---- FileDownloader.download_files -------------------------------
    links,      \* the link list handed to download_files (a sequence of URLs)
    site,       \* site_name of the call
    files,      \* the download directory: path -> [ino, size]
    store,      \* download_records of the store: url -> record (url is unique)
    wk,         \* one task per link: [pc, attempt, path, ino, written, result]
    fetches,    \* per link: number of session.get calls issued
    waits,      \* per link: the asyncio.sleep durations, in order
    dl,         \* the download_files call: [pc, results, stats]
    \* ---- ReasoningEngine.filter_links --------------------------------
    fl,         \* the filter_links call: inputs, per-stage outputs, stats
    \* ---- AgentOrchestrator.run_single_cycle --------------------------
    cy,         \* the cycle: [pc, run, scraped, site_config, engine, site_stats, ...]
    \* ---- WebScraper ---------------------------------------------------
    ws          \* the scraper: clock, rate-limiter windows, the scrape_site call

dlVars == <<links, site, files, store, wk, fetches, waits, dl>>
vars == <<links, site, files, store, wk, fetches, waits, dl, fl, cy, ws>>

----------------------------------------------------------------------------
(* Bounds of the model.                                                    *)

\* ScrapingConfig.max_retries (default 3): retries after the first attempt.
MaxRetries == 1
\* ScrapingConfig.retry_delay_seconds (default 5).
RetryDelay == 2
\* ScrapingConfig.concurrent_downloads (default 3): the semaphore's width.
ConcurrentDownloads == 2
\* ScrapingConfig.max_file_size_mb * 1024 * 1024, counted in chunks.
MaxSizeChunks == 1

\* "No value" of each kind.
NoPath == <<"", "", 0>>
NoIno == <<0, 0>>
NoError == <<"", 0>>

----------------------------------------------------------------------------
(* URLs and links.  ScrapedLink.filename is the basename of the URL path,  *)
(* so two different URLs can carry the same natural filename.              *)

\* A URL is <<scheme, directory, basename>>.
UrlA == <<"https", "a", "report">>
UrlB == <<"https", "b", "report">>
UrlC == <<"https", "a", "data">>

\* ScrapedLink.__init__: self.filename = Path(parsed_url.path).name
Filename(url) == url[3]

Range(s) == {s[i] : i \in DOMAIN s}
Distinct(s) == \A i, j \in DOMAIN s : i # j => s[i] # s[j]

RECURSIVE SeqsUpTo(_, _)
SeqsUpTo(S, n) ==
    IF n = 0 THEN {<<>>}
    ELSE LET shorter == SeqsUpTo(S, n - 1)
         IN shorter \cup {Append(s, x) : s \in shorter, x \in S}

----------------------------------------------------------------------------
(* The download directory.                                                 *)

Path(siteName, name, k) == <<siteName, name, k>>

FileExists(p, fs) == p \in DOMAIN fs

\* _generate_safe_filename up to the collision loop: site prefix + filename.
FinalFilename(url, siteName) == Path(siteName, Filename(url), 0)

\* _generate_safe_filename: final_filename, or the first of name_1, name_2,
\* ... that does not exist in the directory.
GenerateSafeFilename(url, siteName, fs) ==
    LET exists(k) == FileExists(Path(siteName, Filename(url), k), fs)
        k == CHOOSE n \in 0..Cardinality(DOMAIN fs) :
                 /\ ~exists(n)
                 /\ \A j \in 0..(n - 1) : exists(j)
    IN Path(siteName, Filename(url), k)

\* aiofiles.open(file_path, 'wb'): creates the file, or truncates the one there
\* (an existing file keeps its inode).
FsOpenWrite(fs, p, ino) ==
    IF p \in DOMAIN fs
    THEN [fs EXCEPT ![p] = [ino |-> fs[p].ino, size |-> 0]]
    ELSE [q \in DOMAIN fs \cup {p} |->
             IF q = p THEN [ino |-> ino, size |-> 0] ELSE fs[q]]

\* f.write(chunk) at the task's own offset: the file at p grows to `written`
\* if the task's descriptor still is the file at p.
FsWrite(fs, p, ino, written) ==
    IF p \in DOMAIN fs /\ fs[p].ino = ino /\ fs[p].size < written
    THEN [fs EXCEPT ![p].size = written]
    ELSE fs

\* file_path.unlink(missing_ok=True)
FsUnlinkKeeps(fs, p) == fs

FsUnlink(fs, p) == [q \in DOMAIN fs \ {p} |-> fs[q]]

----------------------------------------------------------------------------
(* The store (MemoryManager).                                              *)

\* DownloadRecord.url is unique: a second record for a url is refused
\* (IntegrityError, re-raised by get_session).
StoreAccepts(st, url) == url \notin DOMAIN st

\* MemoryManager.record_download
RecordDownload(st, url, success, retry_count) ==
    [u \in DOMAIN st \cup {url} |->
        IF u = url THEN [success |-> success, retry_count |-> retry_count]
        ELSE st[u]]

IsAlreadyDownloadedFailedOnly(st, url) == url \in DOMAIN st /\ ~st[url].success

\* MemoryManager.is_already_downloaded: a record with this url and success
IsAlreadyDownloaded(st, url) == url \in DOMAIN st /\ st[url].success

----------------------------------------------------------------------------
(* FileDownloader._download_single_file, one task per link.                *)

Tasks == DOMAIN links

NoResult == [success |-> FALSE, file_path |-> NoPath, file_size |-> 0,
             error |-> NoError, retry_count |-> -1]

Transport == "transport failure"

\* `records` counts the task's calls of memory.record_download.
TaskInit == [pc |-> "pending", attempt |-> 0, path |-> NoPath, ino |-> NoIno,
             written |-> 0, records |-> 0, result |-> NoResult]

\* The tasks inside `async with semaphore`.
HoldingUntilSleep(i) == wk[i].pc \in {"get", "stream"}

Holding(i) == wk[i].pc \in {"get", "stream", "sleep"}
Terminal(i) == wk[i].pc \in {"done", "raised"}

\* max_size_bytes = max_file_size_mb * 1024 * 1024
MaxSizeBytes == MaxSizeChunks

\* `for attempt in range(self.scraping_config.max_retries + 1)`
AttemptsAllowed == MaxRetries + 1

\* `if attempt == self.scraping_config.max_retries`
IsFinalAttempt(attempt) == attempt = MaxRetries

\* asyncio.sleep(retry_delay_seconds * (attempt + 1))
RetryWaitZeroBased(attempt) == RetryDelay * attempt

RetryWait(attempt) == RetryDelay * (attempt + 1)

SuccessResultSizeOnDisk(p, size, attempt) ==
    [success |-> TRUE, file_path |-> p,
     file_size |-> IF p \in DOMAIN files THEN files[p].size ELSE 0,
     error |-> NoError, retry_count |-> attempt]

SuccessResult(p, size, attempt) ==
    [success |-> TRUE, file_path |-> p, file_size |-> size,
     error |-> NoError, retry_count |-> attempt]

FailedResultCountsAttempts(err, attempt) ==
    [success |-> FALSE, file_path |-> NoPath, file_size |-> 0,
     error |-> err, retry_count |-> attempt + 1]

FailedResult(err, attempt) ==
    [success |-> FALSE, file_path |-> NoPath, file_size |-> 0,
     error |-> err, retry_count |-> attempt]

\* The `except Exception as e` handler of one attempt (an error message is
\* paired with the attempt that raised it): on the final attempt
\* the failure is recorded and returned (an error of the store escapes the
\* task); otherwise the task sleeps before the next attempt.
AttemptFailed(i, w, err, fs) ==
    /\ files' = fs
    /\ IF IsFinalAttempt(w[i].attempt)
       THEN /\ waits' = waits
            /\ IF StoreAccepts(store, links[i])
               THEN /\ store' = RecordDownload(store, links[i], FALSE, w[i].attempt)
                    /\ wk' = [w EXCEPT ![i].pc = "done",
                                       ![i].records = @ + 1,
                                       ![i].result = FailedResult(<<err, w[i].attempt>>, w[i].attempt)]
               ELSE /\ store' = store
                    /\ wk' = [w EXCEPT ![i].pc = "raised", ![i].records = @ + 1]
       ELSE /\ store' = store
            /\ waits' = [waits EXCEPT ![i] = Append(@, RetryWait(w[i].attempt))]
            /\ wk' = [w EXCEPT ![i].pc = "sleep"]

\* The success tail of one attempt: record_download(success=True), return.
\* An error of the store is caught like any error of the attempt.
AttemptSucceeded(i, w, p, size, fs) ==
    IF StoreAccepts(store, links[i])
    THEN /\ files' = fs
         /\ store' = RecordDownload(store, links[i], TRUE, w[i].attempt)
         /\ wk' = [w EXCEPT ![i].pc = "done",
                            ![i].records = @ + 1,
                            ![i].result = SuccessResult(p, size, w[i].attempt)]
         /\ UNCHANGED waits
    ELSE AttemptFailed(i, [w EXCEPT ![i].records = @ + 1], "store error", fs)

\* Top of an attempt, up to the first await: the path choice, the existence
\* check and session.get(url).
BeginAttempt(i, attempt) ==
    LET p == GenerateSafeFilename(links[i], site, files)
        me == [wk EXCEPT ![i].attempt = attempt]
    IN IF FileExists(p, files)
       THEN /\ AttemptSucceeded(i, me, p, files[p].size, files)
            /\ UNCHANGED fetches
       ELSE /\ wk' = [me EXCEPT ![i].pc = "get", ![i].path = p,
                                ![i].written = 0, ![i].ino = NoIno]
            /\ fetches' = [fetches EXCEPT ![i] = @ + 1]
            /\ UNCHANGED <<files, store, waits>>

\* _download_single_file_with_semaphore: `async with semaphore`, then the
\* first attempt (nothing is awaited in between).
Acquire(i) ==
    /\ wk[i].pc = "pending"
    /\ Cardinality({j \in Tasks : Holding(j)}) < dl.concurrent_downloads
    /\ BeginAttempt(i, 0)
    /\ UNCHANGED <<links, site, dl, fl, cy, ws>>

\* asyncio.sleep returns: the next iteration of `for attempt in range(...)`.
\* When the range is exhausted the loop falls through to the last return.
Wake(i) ==
    /\ wk[i].pc = "sleep"
    /\ IF wk[i].attempt + 1 < AttemptsAllowed
       THEN BeginAttempt(i, wk[i].attempt + 1)
       ELSE /\ wk' = [wk EXCEPT ![i].pc = "done",
                         ![i].result = FailedResult(<<"Max retries exceeded", MaxRetries>>, MaxRetries)]
            /\ UNCHANGED <<files, store, fetches, waits>>
    /\ UNCHANGED <<links, site, dl, fl, cy, ws>>

ResponseErrorAfterOpen(i) ==
    /\ wk[i].pc = "get"
    /\ \E err \in {Transport, "HTTP status", "File too large"} :
           AttemptFailed(i, wk, err,
                         FsOpenWrite(files, wk[i].path, <<i, wk[i].attempt>>))
    /\ UNCHANGED <<links, site, fetches, dl, fl, cy, ws>>

\* _perform_download: session.get fails, the status is not 200, or the
\* declared Content-Length exceeds the limit: nothing is written.
ResponseError(i) ==
    /\ wk[i].pc = "get"
    /\ \E err \in {Transport, "HTTP status", "File too large"} :
           AttemptFailed(i, wk, err, files)
    /\ UNCHANGED <<links, site, fetches, dl, fl, cy, ws>>

\* _perform_download: status 200 and an acceptable (or absent)
\* Content-Length: the file is opened for writing.
ResponseOk(i) ==
    /\ wk[i].pc = "get"
    /\ files' = FsOpenWrite(files, wk[i].path, <<i, wk[i].attempt>>)
    /\ wk' = [wk EXCEPT ![i].pc = "stream",
                        ![i].ino = FsOpenWrite(files, wk[i].path, <<i, wk[i].attempt>>)[wk[i].path].ino]
    /\ UNCHANGED <<links, site, store, fetches, waits, dl, fl, cy, ws>>

\* One chunk of the body: written, then checked against the limit; beyond
\* the limit the partial file is removed and the attempt fails.
Chunk(i) ==
    /\ wk[i].pc = "stream"
    /\ LET total == wk[i].written + 1
           fs == FsWrite(files, wk[i].path, wk[i].ino, total)
       IN IF total > MaxSizeBytes
          THEN AttemptFailed(i, wk, "File too large during download",
                             FsUnlink(fs, wk[i].path))
          ELSE /\ files' = fs
               /\ wk' = [wk EXCEPT ![i].written = total]
               /\ UNCHANGED <<store, waits>>
    /\ UNCHANGED <<links, site, fetches, dl, fl, cy, ws>>

\* The connection breaks while the body is streamed: the file stays.
StreamError(i) ==
    /\ wk[i].pc = "stream"
    /\ AttemptFailed(i, wk, Transport, files)
    /\ UNCHANGED <<links, site, fetches, dl, fl, cy, ws>>

\* End of the body: _perform_download returns total_size, the checksum is
\* computed (its failure is swallowed) and the download is recorded.
StreamEnd(i) ==
    /\ wk[i].pc = "stream"
    /\ AttemptSucceeded(i, wk, wk[i].path, wk[i].written, files)
    /\ UNCHANGED <<links, site, fetches, dl, fl, cy, ws>>

----------------------------------------------------------------------------
(* FileDownloader.download_files: gather and the statistics.               *)

RECURSIVE SumSizes(_, _)
SumSizes(w, S) ==
    IF S = {} THEN 0
    ELSE LET i == CHOOSE x \in S : TRUE
         IN w[i].result.file_size + SumSizes(w, S \ {i})

RECURSIVE ResultsFrom(_, _)
\* the results of the tasks i..Len that returned one, in link order
ResultsFrom(w, i) ==
    IF i > Len(links) THEN <<>>
    ELSE IF w[i].pc = "done"
         THEN <<[link |-> links[i], result |-> w[i].result]>> \o ResultsFrom(w, i + 1)
         ELSE ResultsFrom(w, i + 1)

DownloadStats(w) ==
    LET done == {i \in Tasks : w[i].pc = "done"}
        ok == {i \in done : w[i].result.success}
    IN [total_files |-> Len(links),
        successful_downloads |-> Cardinality(ok),
        failed_downloads |-> Cardinality(done \ ok),
        total_bytes |-> SumSizes(w, ok)]

\* download_files is entered: asyncio.Semaphore(concurrent_downloads), and
\* nothing joined yet.
DownloadCall(width) ==
    [pc |-> "running", concurrent_downloads |-> width, results |-> <<>>,
     stats |-> [total_files |-> 0, successful_downloads |-> 0,
                failed_downloads |-> 0, total_bytes |-> 0]]

NoStats == [total_files |-> 0, successful_downloads |-> 0,
            failed_downloads |-> 0, total_bytes |-> 0]

\* The end of download_files.  show_progress is read only here, where it
\* chooses between tqdm.gather and asyncio.gather(return_exceptions=True), so
\* the parameter is drawn where it is read.
\* gather returns once every task has finished; with return_exceptions
\* (show_progress = False) a task's exception is logged and skipped.
JoinReturn(show_progress) ==
    /\ dl.pc = "running"
    /\ \A i \in Tasks : Terminal(i)
    /\ ~show_progress \/ \A i \in Tasks : wk[i].pc = "done"
    /\ dl' = [dl EXCEPT !.pc = "returned", !.results = ResultsFrom(wk, 1),
                        !.stats = DownloadStats(wk)]
    /\ UNCHANGED <<links, site, files, store, wk, fetches, waits, fl, cy, ws>>

\* tqdm.gather (show_progress = True) re-raises the first exception of a
\* task; the other tasks are not cancelled.
JoinRaise ==
    /\ dl.pc = "running"
    /\ \E i \in Tasks : wk[i].pc = "raised"
    /\ dl' = [dl EXCEPT !.pc = "raised"]
    /\ UNCHANGED <<links, site, files, store, wk, fetches, waits, fl, cy, ws>>

DLNext ==
    \/ \E i \in Tasks : Acquire(i)
    \/ \E i \in Tasks : ResponseError(i)
    \/ \E i \in Tasks : ResponseOk(i)
    \/ \E i \in Tasks : Chunk(i)
    \/ \E i \in Tasks : StreamError(i)
    \/ \E i \in Tasks : StreamEnd(i)
    \/ \E i \in Tasks : Wake(i)
    \/ \E sp \in BOOLEAN : JoinReturn(sp)
    \/ JoinRaise

----------------------------------------------------------------------------
(* download_files called on a directory and a store left by earlier cycles. *)

SiteName == "site"

\* The file an earlier cycle left for a link named "report".
ReportFile ==
    [p \in {Path(SiteName, "report", 0)} |-> [ino |-> <<0, 1>>, size |-> 1]]

\* The failed record an earlier cycle left for a URL.
FailedRecord(url) ==
    [u \in {url} |-> [success |-> FALSE, retry_count |-> MaxRetries]]

\* The calls of download_files explored: link lists deduplicated by URL (two
\* links of one list may share their filename), on a directory and a store
\* that are empty or were left by an earlier cycle.
Scenarios ==
    {[links |-> <<UrlA>>, files |-> f, store |-> st, width |-> ConcurrentDownloads] :
        f \in {<<>>, ReportFile}, st \in {<<>>, FailedRecord(UrlA)}}
    \cup
    {[links |-> <<UrlA, UrlB>>, files |-> <<>>,
      store |-> <<>>, width |-> ConcurrentDownloads],
     [links |-> <<UrlC, UrlA>>, files |-> <<>>,
      store |-> FailedRecord(UrlA), width |-> ConcurrentDownloads],
     [links |-> <<UrlC, UrlA>>, files |-> <<>>,
      store |-> <<>>, width |-> 1]}

FlIdle == [pc |-> "idle"]
WsIdle == [pc |-> "idle"]
CyIdle == [pc |-> "idle"]

DLInit ==
    /\ \E sc \in Scenarios :
          /\ links = sc.links
          /\ files = sc.files
          /\ store = sc.store
          /\ dl = DownloadCall(sc.width)
    /\ site = SiteName
    /\ wk = [i \in DOMAIN links |-> TaskInit]
    /\ fetches = [i \in DOMAIN links |-> 0]
    /\ waits = [i \in DOMAIN links |-> <<>>]
    /\ fl = FlIdle
    /\ cy = CyIdle
    /\ ws = WsIdle

SpecDL == DLInit /\ [][DLNext]_vars

----------------------------------------------------------------------------
(* Links and site configuration as the filter pipeline sees them.          *)

\* str.lower() on the strings of the model.
Lower(s) ==
    CASE s = ".PDF" -> ".pdf"
      [] s = "Draft" -> "draft"
      [] OTHER -> s

\* ScrapedLink: url, file_type (lower-cased by __init__), title words.
Link(url, file_type, title) ==
    [url |-> url, file_type |-> Lower(file_type), title |-> title]

LinkA == Link(UrlA, ".pdf", {"annual", "2024"})
LinkB == Link(UrlB, ".PDF", {"Draft"})
LinkC == Link(UrlC, ".csv", {"2024"})

FilterLinkUniverse == {LinkA, LinkB, LinkC}

UrlsOf(ls) == [i \in DOMAIN ls |-> ls[i].url]

\* f"{title} {text} {filename} {url}".lower(): the words a term can match.
TextToCheck(l) ==
    {Lower(w) : w \in l.title} \cup {Filename(l.url), l.url[1], l.url[2]}

\* SiteConfig: file_types, filters.include / filters.exclude,
\* llm.use_llm and llm.relevance_threshold (in tenths).
SiteOpen ==
    [name |-> "site", file_types |-> {".pdf", ".csv"}, include |-> {},
     exclude |-> {}, use_llm |-> TRUE, relevance_threshold |-> 6]

SiteStrict ==
    [name |-> "site", file_types |-> {".PDF"}, include |-> {"2024"},
     exclude |-> {"Draft"}, use_llm |-> FALSE, relevance_threshold |-> 7]

SiteConfigs == {SiteOpen, SiteStrict}

----------------------------------------------------------------------------
(* ReasoningEngine: dedup and history check.                               *)

RemoveDuplicatesFromLast(ls, i, unique) ==
    LET keep == {k \in i..Len(ls) :
                    \A j \in (k + 1)..Len(ls) : ls[j].url # ls[k].url}
    IN unique \o [n \in 1..Cardinality(keep) |->
                     ls[CHOOSE k \in keep : Cardinality({j \in keep : j <= k}) = n]]

RECURSIVE RemoveDuplicatesFrom(_, _, _)
RemoveDuplicatesFrom(ls, i, unique) ==
    IF i > Len(ls) THEN unique
    ELSE IF ls[i].url \in Range(UrlsOf(unique))
         THEN RemoveDuplicatesFrom(ls, i + 1, unique)
         ELSE RemoveDuplicatesFrom(ls, i + 1, Append(unique, ls[i]))

RemoveDuplicatesKeepsAll(ls) == ls

\* ReasoningEngine._remove_duplicates
RemoveDuplicates(ls) == RemoveDuplicatesFrom(ls, 1, <<>>)

RECURSIVE FilterAlreadyDownloadedFrom(_, _, _, _)
FilterAlreadyDownloadedFrom(ls, st, i, new) ==
    IF i > Len(ls) THEN new
    ELSE IF ~IsAlreadyDownloaded(st, ls[i].url)
         THEN FilterAlreadyDownloadedFrom(ls, st, i + 1, Append(new, ls[i]))
         ELSE FilterAlreadyDownloadedFrom(ls, st, i + 1, new)

\* ReasoningEngine._filter_already_downloaded
FilterAlreadyDownloaded(ls, st) == FilterAlreadyDownloadedFrom(ls, st, 1, <<>>)

----------------------------------------------------------------------------
(* RuleBasedFilter.                                                        *)

CheckFileTypeCaseSensitive(l, allowed_types) ==
    allowed_types = {} \/ l.file_type \in allowed_types

\* RuleBasedFilter._check_file_type
CheckFileType(l, allowed_types) ==
    IF allowed_types = {} THEN TRUE
    ELSE Lower(l.file_type) \in {Lower(t) : t \in allowed_types}

CheckIncludeFiltersNone(l, include_terms) == TRUE

\* RuleBasedFilter._check_include_filters
CheckIncludeFilters(l, include_terms) ==
    IF include_terms = {} THEN TRUE
    ELSE \E term \in include_terms : Lower(term) \in TextToCheck(l)

\* RuleBasedFilter._check_exclude_filters (TRUE: to be excluded)
CheckExcludeFilters(l, exclude_terms) ==
    IF exclude_terms = {} THEN FALSE
    ELSE \E term \in exclude_terms : Lower(term) \in TextToCheck(l)

SuspiciousPatterns == {"javascript:", "data:", "mailto:", "ftp:", "file:", "tel:"}

\* RuleBasedFilter._check_url_validity
CheckUrlValidity(l) ==
    /\ l.url[1] \in {"http", "https"}
    /\ l.url[2] \notin SuspiciousPatterns
    /\ l.url[3] \notin SuspiciousPatterns

NoRuleReasons ==
    [include_filter |-> 0, exclude_filter |-> 0, file_type_filter |-> 0,
     url_pattern_filter |-> 0]

RECURSIVE RuleFilterFrom(_, _, _, _)
RuleFilterFrom(ls, sc, i, acc) ==
    IF i > Len(ls) THEN acc
    ELSE LET l == ls[i]
             reject(r) == RuleFilterFrom(ls, sc, i + 1, [acc EXCEPT !.reasons[r] = @ + 1])
         IN IF ~CheckFileType(l, sc.file_types) THEN reject("file_type_filter")
            ELSE IF sc.include # {} /\ ~CheckIncludeFilters(l, sc.include)
                 THEN reject("include_filter")
            ELSE IF sc.exclude # {} /\ CheckExcludeFilters(l, sc.exclude)
                 THEN reject("exclude_filter")
            ELSE IF ~CheckUrlValidity(l) THEN reject("url_pattern_filter")
            ELSE RuleFilterFrom(ls, sc, i + 1, [acc EXCEPT !.links = Append(@, l)])

\* RuleBasedFilter.filter_links: the survivors and the reason counters
RuleFilterLinks(ls, sc) ==
    RuleFilterFrom(ls, sc, 1, [links |-> <<>>, reasons |-> NoRuleReasons])

----------------------------------------------------------------------------
(* LLMBasedFilter: the intelligent filter.                                 *)

\* `batch_size = 20`, scaled to the link lists of the model.
BatchSize == 2
\* Longest `filtered_documents` list of a response.
MaxDocs == 2
\* Longest link list handed to filter_links.
MaxInput == 3

UnknownUrl == <<"https", "x", "other">>

\* One entry of "filtered_documents"; wellformed = FALSE is an entry the
\* parser cannot read (not an object).
Doc(url, include, score) ==
    [wellformed |-> TRUE, url |-> url, include |-> include, relevance_score |-> score]

BadDoc == [wellformed |-> FALSE, url |-> UnknownUrl, include |-> FALSE,
           relevance_score |-> 0]

\* The entries a response to `batch` is built from: every link of the batch
\* kept with a score at the threshold, the first one also scored below it
\* or excluded, a URL that was never sent, and an unreadable entry.
DocsFor(batch, threshold) ==
    {Doc(batch[i].url, TRUE, threshold) : i \in DOMAIN batch}
    \cup {Doc(batch[1].url, TRUE, threshold - 1), Doc(batch[1].url, FALSE, threshold),
          Doc(UnknownUrl, TRUE, threshold), BadDoc}

\* What the capability can answer for `batch`: the call fails, the text is
\* not JSON, or a JSON object with a list of entries in any order.
ResponsesFor(batch, threshold) ==
    {[kind |-> "error", docs |-> <<>>], [kind |-> "notjson", docs |-> <<>>]}
    \cup {[kind |-> "json", docs |-> d] : d \in SeqsUpTo(DocsFor(batch, threshold), MaxDocs)}

NoLLMStats ==
    [llm_relevance_filter |-> 0, llm_low_confidence |-> 0,
     llm_processing_error |-> 0, llm_scores |-> <<>>]

MeetsThresholdAlways(relevance_score, threshold) == TRUE

\* `if relevance_score >= threshold`
MeetsThreshold(relevance_score, threshold) == relevance_score >= threshold

RECURSIVE ParseDocsFrom(_, _, _, _, _)
\* the `for doc in filtered_documents` loop; raised = an exception ended it
ParseDocsFrom(docs, original, threshold, i, acc) ==
    IF i > Len(docs) THEN acc
    ELSE LET doc == docs[i]
             known == {k \in DOMAIN original : original[k].url = doc.url}
         IN IF ~doc.wellformed THEN [acc EXCEPT !.raised = TRUE]
            ELSE IF known # {} /\ doc.include
                 THEN IF MeetsThreshold(doc.relevance_score, threshold)
                      THEN ParseDocsFrom(docs, original, threshold, i + 1,
                             [acc EXCEPT
                                !.links = Append(@, original[CHOOSE k \in known :
                                                       \A j \in known : j <= k]),
                                !.stats.llm_scores = Append(@, <<doc.url, doc.relevance_score>>)])
                      ELSE ParseDocsFrom(docs, original, threshold, i + 1,
                             [acc EXCEPT !.stats.llm_low_confidence = @ + 1])
                 ELSE ParseDocsFrom(docs, original, threshold, i + 1,
                        [acc EXCEPT !.stats.llm_relevance_filter = @ + 1])

\* The fallback of a batch: its input, and the error counter grown by it.
FallbackEmpty(original, stats) ==
    [links |-> <<>>, stats |-> [stats EXCEPT !.llm_processing_error = @ + Len(original)]]

Fallback(original, stats) ==
    [links |-> original, stats |-> [stats EXCEPT !.llm_processing_error = @ + Len(original)]]

\* LLMBasedFilter._parse_llm_response
ParseLLMResponse(response, original, stats, threshold) ==
    IF response.kind = "notjson" THEN Fallback(original, stats)
    ELSE LET r == ParseDocsFrom(response.docs, original, threshold, 1,
                                [links |-> <<>>, stats |-> stats, raised |-> FALSE])
         IN IF r.raised THEN Fallback(original, r.stats)
            ELSE [links |-> r.links, stats |-> r.stats]

\* LLMBasedFilter._process_batch
ProcessBatch(batch, sc, stats, response) ==
    IF response.kind = "error" THEN Fallback(batch, stats)
    ELSE ParseLLMResponse(response, batch, stats, sc.relevance_threshold)

\* links[i : i + batch_size] (i counts from 1)
BatchAt(ls, i) ==
    SubSeq(ls, i, IF i + BatchSize - 1 < Len(ls) THEN i + BatchSize - 1 ELSE Len(ls))

----------------------------------------------------------------------------
(* ReasoningEngine.filter_links, one action per stage.  fl holds the call: *)
(* its arguments, the engine's llm_config.enabled and llm_filter, and the  *)
(* list each stage produced.                                               *)

NoFilterStats ==
    [total_links |-> 0, filtered_links |-> 0, duplicate_links |-> 0,
     already_downloaded |-> 0, rule_filtered |-> 0, llm_filtered |-> 0]

\* The state of a call that has just been entered.
FilterCall(ls, sc, use_llm, enabled, llm_filter) ==
    [pc |-> "dedup", links |-> ls, site_config |-> sc, use_llm |-> use_llm,
     enabled |-> enabled, llm_filter |-> llm_filter,
     unique_links |-> <<>>, new_links |-> <<>>, rule_filtered_links |-> <<>>,
     rule_reasons |-> NoRuleReasons,
     i |-> 1, batch |-> <<>>, response |-> [kind |-> "none", docs |-> <<>>],
     batch_filtered |-> <<>>, filtered_links |-> <<>>, llm_stats |-> NoLLMStats,
     llm_calls |-> 0, final_links |-> <<>>,
     stats |-> [NoFilterStats EXCEPT !.total_links = Len(ls)]]

\* `if use_llm and self.llm_config.enabled and self.llm_filter`
UsesLLM(f) == f.use_llm /\ f.enabled /\ f.llm_filter # "none"

FilterReturn(f, final, llm_ran) ==
    [f EXCEPT !.pc = "done", !.final_links = final,
              !.stats.llm_filtered =
                  IF llm_ran THEN Len(f.rule_filtered_links) - Len(final) ELSE @,
              !.stats.filtered_links = Len(final)]

FL_RemoveDuplicates ==
    /\ fl.pc = "dedup"
    /\ LET u == RemoveDuplicates(fl.links)
       IN fl' = [fl EXCEPT !.pc = "history", !.unique_links = u,
                           !.stats.duplicate_links = Len(fl.links) - Len(u)]
    /\ UNCHANGED <<dlVars, cy, ws>>

FL_FilterAlreadyDownloaded ==
    /\ fl.pc = "history"
    /\ LET n == FilterAlreadyDownloaded(fl.unique_links, store)
       IN fl' = [fl EXCEPT !.pc = "rule", !.new_links = n,
                           !.stats.already_downloaded = Len(fl.unique_links) - Len(n)]
    /\ UNCHANGED <<dlVars, cy, ws>>

\* Stage 3, and stage 4 up to its first await: without the intelligent
\* stage the call returns here.
FL_RuleFilter ==
    /\ fl.pc = "rule"
    /\ LET r == RuleFilterLinks(fl.new_links, fl.site_config)
           f == [fl EXCEPT !.rule_filtered_links = r.links,
                           !.rule_reasons = r.reasons,
                           !.stats.rule_filtered = Len(fl.new_links) - Len(r.links)]
       IN fl' = IF UsesLLM(f)
                THEN [f EXCEPT !.pc = "llm", !.llm_calls = @ + 1]
                ELSE FilterReturn(f, r.links, FALSE)
    /\ UNCHANGED <<dlVars, cy, ws>>

OnLLMExceptionPropagates(f) == [f EXCEPT !.pc = "raised"]

\* `except Exception`: final_links = rule_filtered_links, and on to return.
OnLLMException(f) == FilterReturn(f, f.rule_filtered_links, FALSE)

\* self.llm_filter.filter_links raises.
FL_LLMRaises ==
    /\ fl.pc = "llm"
    /\ fl.llm_filter = "raises"
    /\ fl' = OnLLMException(fl)
    /\ UNCHANGED <<dlVars, cy, ws>>

\* One turn of `for i in range(0, len(links), batch_size)`.
FL_ProcessBatch ==
    /\ fl.pc = "llm"
    /\ fl.llm_filter = "real"
    /\ fl.i <= Len(fl.rule_filtered_links)
    /\ LET batch == BatchAt(fl.rule_filtered_links, fl.i)
       IN \E response \in ResponsesFor(batch, fl.site_config.relevance_threshold) :
            LET r == ProcessBatch(batch, fl.site_config, fl.llm_stats, response)
            IN fl' = [fl EXCEPT !.i = @ + BatchSize, !.batch = batch,
                                !.response = response,
                                !.batch_filtered = r.links,
                                !.filtered_links = @ \o r.links,
                                !.llm_stats = r.stats]
    /\ UNCHANGED <<dlVars, cy, ws>>

\* LLMBasedFilter.filter_links returns (at once for an empty list), and
\* ReasoningEngine.filter_links with it.
FL_LLMReturn ==
    /\ fl.pc = "llm"
    /\ fl.llm_filter = "real"
    /\ fl.i > Len(fl.rule_filtered_links)
    /\ fl' = FilterReturn(fl, fl.filtered_links, TRUE)
    /\ UNCHANGED <<dlVars, cy, ws>>

FLNext ==
    \/ FL_RemoveDuplicates
    \/ FL_FilterAlreadyDownloaded
    \/ FL_RuleFilter
    \/ FL_LLMRaises
    \/ FL_ProcessBatch
    \/ FL_LLMReturn

\* The engine: LLM switched off, on but failed to initialise, on and
\* working, on with a filter whose filter_links raises.
Engines ==
    {[enabled |-> FALSE, llm_filter |-> "none"],
     [enabled |-> TRUE, llm_filter |-> "none"],
     [enabled |-> TRUE, llm_filter |-> "real"],
     [enabled |-> TRUE, llm_filter |-> "raises"]}

SuccessRecord(url) == [u \in {url} |-> [success |-> TRUE, retry_count |-> 0]]

Histories == {<<>>, SuccessRecord(UrlA), FailedRecord(UrlC)}

DlIdle == [pc |-> "idle", concurrent_downloads |-> ConcurrentDownloads,
           results |-> <<>>, stats |-> NoStats]

FLInit ==
    /\ \E ls \in SeqsUpTo(FilterLinkUniverse, MaxInput), sc \in SiteConfigs,
          use_llm \in BOOLEAN, e \in Engines :
         fl = FilterCall(ls, sc, use_llm, e.enabled, e.llm_filter)
    /\ store \in Histories
    /\ links = <<>> /\ site = SiteName /\ files = <<>>
    /\ wk = <<>> /\ fetches = <<>> /\ waits = <<>>
    /\ dl = DlIdle /\ cy = CyIdle /\ ws = WsIdle

SpecFilter == FLInit /\ [][FLNext]_vars

----------------------------------------------------------------------------
(* ReasoningEngine.prioritize_links.  The links of the model carry no date *)
(* and no size, so those two scores are 0.                                 *)

\* priority_score: file type, then _calculate_relevance_score over
\* f"{title} {text} {filename}".lower()
PriorityScore(l, sc) ==
    LET text == {Lower(w) : w \in l.title} \cup {Filename(l.url)}
        type_score == CASE l.file_type = ".pdf" -> 10
                        [] l.file_type \in {".csv", ".xlsx"} -> 8
                        [] l.file_type \in {".json", ".xml"} -> 6
                        [] OTHER -> 1
    IN type_score
       + 2 * Cardinality({t \in sc.include : Lower(t) \in text})
       - 5 * Cardinality({t \in sc.exclude : Lower(t) \in text})

RECURSIVE PrioritizeFrom(_, _, _, _)
\* sorted(links, key=priority_score, reverse=True): stable, highest first
PrioritizeFrom(ls, sc, i, acc) ==
    IF i > Len(ls) THEN acc
    ELSE LET x == ls[i]
             ahead == {k \in DOMAIN acc : PriorityScore(acc[k], sc) >= PriorityScore(x, sc)}
             n == Cardinality(ahead)
         IN PrioritizeFrom(ls, sc, i + 1,
                SubSeq(acc, 1, n) \o <<x>> \o SubSeq(acc, n + 1, Len(acc)))

PrioritizeLinksTiesReversed(ls, sc) ==
    PrioritizeFrom([i \in DOMAIN ls |-> ls[Len(ls) + 1 - i]], sc, 1, <<>>)

PrioritizeLinks(ls, sc) == PrioritizeFrom(ls, sc, 1, <<>>)

----------------------------------------------------------------------------
(* RuleBasedFilter.filter_links and prioritize_links called on their own:  *)
(* fl holds the arguments and what the two calls returned.                 *)

UrlQ == <<"https", "q", "update">>
UrlF == <<"ftp", "f", "figures">>

LinkQ == Link(UrlQ, ".pdf", {"quarterly", "update"})
LinkF == Link(UrlF, ".pdf", {"2024"})

RuleLinkUniverse == {LinkA, LinkB, LinkC, LinkQ, LinkF}

SitePdfOnly ==
    [name |-> "site", file_types |-> {".pdf"}, include |-> {},
     exclude |-> {}, use_llm |-> FALSE, relevance_threshold |-> 6]

SiteInclude ==
    [name |-> "site", file_types |-> {}, include |-> {"2024"},
     exclude |-> {}, use_llm |-> FALSE, relevance_threshold |-> 6]

RuleSiteConfigs == {SiteOpen, SiteStrict, SitePdfOnly, SiteInclude}

RuleCall(ls, sc) ==
    [pc |-> "called", links |-> ls, site_config |-> sc,
     filtered_links |-> <<>>, reasons |-> NoRuleReasons, prioritized |-> <<>>]

\* RuleBasedFilter.filter_links(links, site_config)
RB_FilterLinks ==
    /\ fl.pc = "called"
    /\ LET r == RuleFilterLinks(fl.links, fl.site_config)
       IN fl' = [fl EXCEPT !.pc = "filtered", !.filtered_links = r.links,
                           !.reasons = r.reasons]
    /\ UNCHANGED <<dlVars, cy, ws>>

\* prioritize_links(filtered_links, site_config), called when a link passed
RB_PrioritizeLinks ==
    /\ fl.pc = "filtered"
    /\ fl.filtered_links # <<>>
    /\ fl' = [fl EXCEPT !.pc = "prioritized",
                        !.prioritized = PrioritizeLinks(fl.filtered_links, fl.site_config)]
    /\ UNCHANGED <<dlVars, cy, ws>>

RulesNext == RB_FilterLinks \/ RB_PrioritizeLinks

RulesInit ==
    /\ \E ls \in SeqsUpTo(RuleLinkUniverse, MaxInput), sc \in RuleSiteConfigs :
         fl = RuleCall(ls, sc)
    /\ store = <<>> /\ links = <<>> /\ site = SiteName /\ files = <<>>
    /\ wk = <<>> /\ fetches = <<>> /\ waits = <<>>
    /\ dl = DlIdle /\ cy = CyIdle /\ ws = WsIdle

SpecRules == RulesInit /\ [][RulesNext]_vars

----------------------------------------------------------------------------
(* The download history and the first two stages of filter_links called on *)
(* their own: record_download calls fill the store, then a link list is    *)
(* deduplicated and checked against it.  fl holds the calls made and the   *)
(* lists.                                                                  *)

\* record_download calls explored.
MaxRecords == 2

\* A second link to the URL of LinkA, with another title.
LinkA2 == Link(UrlA, ".pdf", {"copy"})

HistoryLinkUniverse == {LinkA, LinkA2, LinkB, LinkC}

HistoryUrls == {l.url : l \in HistoryLinkUniverse}

\* MemoryManager.record_download(url=url, success=success): the row is
\* inserted, or the unique url makes the insert fail and the call raises.
ST_RecordDownload(url, success) ==
    /\ fl.pc = "recording"
    /\ Len(fl.calls) < MaxRecords
    /\ store' = IF StoreAccepts(store, url)
                THEN RecordDownload(store, url, success, 0)
                ELSE store
    /\ fl' = [fl EXCEPT !.calls = Append(@, [url |-> url, success |-> success,
                                              raised |-> ~StoreAccepts(store, url)])]
    /\ UNCHANGED <<links, site, files, wk, fetches, waits, dl, cy, ws>>

\* ReasoningEngine._remove_duplicates(links)
ST_RemoveDuplicates ==
    /\ fl.pc = "recording"
    /\ fl' = [fl EXCEPT !.pc = "unique", !.unique_links = RemoveDuplicates(fl.links)]
    /\ UNCHANGED <<dlVars, cy, ws>>

\* ReasoningEngine._filter_already_downloaded(unique_links)
ST_FilterAlreadyDownloaded ==
    /\ fl.pc = "unique"
    /\ fl' = [fl EXCEPT !.pc = "new",
                        !.new_links = FilterAlreadyDownloaded(fl.unique_links, store)]
    /\ UNCHANGED <<dlVars, cy, ws>>

HistoryNext ==
    \/ \E url \in HistoryUrls, success \in BOOLEAN : ST_RecordDownload(url, success)
    \/ ST_RemoveDuplicates
    \/ ST_FilterAlreadyDownloaded

HistoryInit ==
    /\ \E ls \in SeqsUpTo(HistoryLinkUniverse, MaxInput) :
         fl = [pc |-> "recording", calls |-> <<>>, links |-> ls,
               unique_links |-> <<>>, new_links |-> <<>>]
    /\ store = <<>> /\ links = <<>> /\ site = SiteName /\ files = <<>>
    /\ wk = <<>> /\ fetches = <<>> /\ waits = <<>>
    /\ dl = DlIdle /\ cy = CyIdle /\ ws = WsIdle

SpecHistory == HistoryInit /\ [][HistoryNext]_vars

----------------------------------------------------------------------------
(* AgentOrchestrator: run_single_cycle over its sites, on one store and   *)
(* one destination directory.  cy holds the orchestrator's position, the  *)
(* sites and what their pages list, is_running, and the statistics.       *)

NoSiteStats ==
    [success |-> FALSE, links_found |-> 0, links_filtered |-> 0,
     downloads_attempted |-> 0, downloads_successful |-> 0,
     bytes_downloaded |-> 0, errors |-> 0]

\* The aggregate counters of cycle_stats.
NoCycleStats ==
    [total_links_found |-> 0, total_links_filtered |-> 0,
     total_downloads_attempted |-> 0, total_downloads_successful |-> 0,
     total_bytes_downloaded |-> 0]

\* cycle_stats["sites"][name] = entry
SetEntry(entries, name, entry) ==
    [n \in DOMAIN entries \cup {name} |-> IF n = name THEN entry ELSE entries[n]]

\* "Aggregate stats": cycle_stats[...] += site_stats.get(..., 0)
Aggregate(totals, site_stats) ==
    [total_links_found |-> totals.total_links_found + site_stats.links_found,
     total_links_filtered |-> totals.total_links_filtered + site_stats.links_filtered,
     total_downloads_attempted |->
         totals.total_downloads_attempted + site_stats.downloads_attempted,
     total_downloads_successful |->
         totals.total_downloads_successful + site_stats.downloads_successful,
     total_bytes_downloaded |->
         totals.total_bytes_downloaded + site_stats.bytes_downloaded]

\* The loop `for site_config in sites_to_process` takes up site k.
TakeSite(c, k) ==
    [c EXCEPT !.pc = "start", !.k = k,
              !.scraped = c.sites[k].scraped,
              !.site_config = c.sites[k].site_config,
              !.llm_calls = 0, !.downloading = <<>>,
              !.site_stats = NoSiteStats]

\* The loop goes on to the next site, or the cycle returns cycle_stats.
NextSite(c) ==
    IF c.k < Len(c.sites) THEN TakeSite(c, c.k + 1)
    ELSE [c EXCEPT !.pc = "cycle_returned"]

\* start_scrape_session: a new row of scrape_sessions.
NewSession(name) ==
    [site_name |-> name, completions |-> 0, completion_raised |-> FALSE,
     success |-> FALSE, files_failed |-> 0]

CompleteSessionSkipped(c, completed) == c

\* The `finally` of _process_site: complete_scrape_session(session.id,
\* success=site_stats["success"], ..., files_failed=attempted - successful)
\* updates the row of this run's session, or raises.
CompleteSession(c, completed) ==
    LET n == Len(c.sessions)
    IN IF completed
       THEN [c EXCEPT !.sessions[n].completions = @ + 1,
                      !.sessions[n].success = c.site_stats.success,
                      !.sessions[n].files_failed =
                          c.site_stats.downloads_attempted
                            - c.site_stats.downloads_successful]
       ELSE [c EXCEPT !.sessions[n].completion_raised = TRUE]

\* _process_site leaves through its `finally`: complete_scrape_session
\* goes through and site_stats is returned, or it raises.
LeaveSite(c, completed) ==
    IF completed THEN [CompleteSession(c, completed) EXCEPT !.pc = "returned"]
    ELSE [CompleteSession(c, completed) EXCEPT !.pc = "site_raised"]

\* _process_site leaves through `except Exception` and `finally`: log_error
\* goes through or raises, then the session is completed either way;
\* site_stats is returned when neither call raised.
LeaveSiteAfterError(c, logged, completed) ==
    IF logged /\ completed
    THEN [CompleteSession(c, completed) EXCEPT !.pc = "returned"]
    ELSE [CompleteSession(c, completed) EXCEPT !.pc = "site_raised"]

\* run_continuous sets is_running and calls run_single_cycle while
\* is_running holds; run_single_cycle is entered: `async with
\* self.web_scraper, self.file_downloader`, cycle_stats is set up and the
\* loop takes up the first site.
CY_RunSingleCycle ==
    /\ cy.pc \in {"ready", "cycle_returned"}
    /\ cy.run = "none" \/ (cy.run = "first" /\ cy.rerun /\ cy.is_running)
    /\ cy' = TakeSite(
               [cy EXCEPT !.run = IF @ = "none" THEN "first" ELSE "second",
                          !.is_running = TRUE,
                          !.succeeded = {u \in DOMAIN store : store[u].success},
                          !.outcomes = <<>>, !.processed_sites = 0,
                          !.cycle_stats = NoCycleStats, !.entries = <<>>,
                          !.sessions = <<>>,
                          !.stop_at = 0], 1)
    /\ links' = <<>> /\ wk' = <<>> /\ fetches' = <<>> /\ waits' = <<>>
    /\ dl' = DlIdle
    /\ UNCHANGED <<site, files, store, fl, ws>>

\* AgentOrchestrator.stop, called while the cycle runs.
CY_Stop ==
    /\ cy.pc \notin {"ready", "cycle_returned", "cycle_raised"}
    /\ cy.stop_at = 0
    /\ cy' = [cy EXCEPT !.is_running = FALSE, !.stop_at = cy.k]
    /\ UNCHANGED <<dlVars, fl, ws>>

\* _process_site: start_scrape_session, outside the try; if the store
\* fails here the exception leaves _process_site.
CY_StartSession ==
    /\ cy.pc = "start"
    /\ \E started \in BOOLEAN :
         cy' = IF started
               THEN [cy EXCEPT !.pc = "scrape",
                               !.sessions = Append(@, NewSession(cy.site_config.name))]
               ELSE [cy EXCEPT !.pc = "site_raised"]
    /\ UNCHANGED <<dlVars, fl, ws>>

\* scrape_site returns; without links the site is done, otherwise
\* filter_links(scraped_links, site_config) is called.
CY_ScrapeSite ==
    /\ cy.pc = "scrape"
    /\ IF cy.scraped = <<>>
       THEN /\ \E completed \in BOOLEAN :
                 cy' = LeaveSite([cy EXCEPT !.site_stats.success = TRUE], completed)
            /\ UNCHANGED fl
       ELSE /\ cy' = [cy EXCEPT !.pc = "filter",
                                !.site_stats.links_found = Len(cy.scraped)]
            /\ fl' = FilterCall(cy.scraped, cy.site_config, FALSE,
                                cy.engine.enabled, cy.engine.llm_filter)
    /\ UNCHANGED <<dlVars, ws>>

\* filter_links has returned: stop if nothing passed, otherwise
\* prioritize_links and download_files(prioritized_links, site_config.name).
CY_Filtered ==
    /\ cy.pc = "filter"
    /\ fl.pc = "done"
    /\ fl' = FlIdle
    /\ UNCHANGED ws
    /\ IF fl.final_links = <<>>
       THEN /\ \E completed \in BOOLEAN :
                 cy' = LeaveSite([cy EXCEPT !.llm_calls = fl.llm_calls,
                                            !.site_stats.success = TRUE], completed)
            /\ UNCHANGED dlVars
       ELSE LET prioritized == PrioritizeLinks(fl.final_links, cy.site_config)
            IN /\ cy' = [cy EXCEPT !.pc = "download", !.llm_calls = fl.llm_calls,
                                   !.downloading = prioritized,
                                   !.site_stats.links_filtered = Len(fl.final_links)]
               /\ links' = UrlsOf(prioritized)
               /\ site' = cy.site_config.name
               /\ wk' = [i \in DOMAIN prioritized |-> TaskInit]
               /\ fetches' = [i \in DOMAIN prioritized |-> 0]
               /\ waits' = [i \in DOMAIN prioritized |-> <<>>]
               /\ dl' = DownloadCall(ConcurrentDownloads)
               /\ UNCHANGED <<files, store>>

\* download_files has returned: the statistics go to site_stats.
CY_Downloaded ==
    /\ cy.pc = "download"
    /\ dl.pc = "returned"
    /\ \E completed \in BOOLEAN :
         cy' = LeaveSite(
                 [cy EXCEPT !.site_stats.downloads_attempted = dl.stats.total_files,
                            !.site_stats.downloads_successful = dl.stats.successful_downloads,
                            !.site_stats.bytes_downloaded = dl.stats.total_bytes,
                            !.site_stats.errors =
                                Cardinality({k \in DOMAIN dl.results :
                                               ~dl.results[k].result.success}),
                            !.site_stats.success = TRUE], completed)
    /\ UNCHANGED <<dlVars, fl, ws>>

\* download_files has raised: `except Exception` logs the error to the
\* store and the session is completed with success = False; if either
\* store call fails the exception leaves _process_site.
CY_DownloadRaised ==
    /\ cy.pc = "download"
    /\ dl.pc = "raised"
    /\ \E logged, completed \in BOOLEAN :
         cy' = LeaveSiteAfterError([cy EXCEPT !.site_stats.errors = 1],
                                   logged, completed)
    /\ UNCHANGED <<dlVars, fl, ws>>

\* _process_site returned site_stats: it is stored and aggregated.
CY_SiteProcessed ==
    /\ cy.pc = "returned"
    /\ cy' = NextSite([cy EXCEPT
                 !.outcomes = Append(@, "stats"),
                 !.entries = SetEntry(@, cy.site_config.name,
                                      [kind |-> "stats", stats |-> cy.site_stats]),
                 !.processed_sites = @ + 1,
                 !.cycle_stats = Aggregate(@, cy.site_stats)])
    /\ UNCHANGED <<dlVars, fl, ws>>

OnSiteExceptionPropagates(c) == [c EXCEPT !.pc = "cycle_raised"]

\* `except Exception` of the loop: the site's entry is
\* {"error": ..., "success": False}, and the loop goes on.
OnSiteException(c) ==
    NextSite([c EXCEPT
        !.outcomes = Append(@, "error"),
        !.entries = SetEntry(@, c.site_config.name,
                             [kind |-> "error", stats |-> NoSiteStats])])

\* _process_site raised.
CY_SiteFailed ==
    /\ cy.pc = "site_raised"
    /\ cy' = OnSiteException(cy)
    /\ UNCHANGED <<dlVars, fl, ws>>

CycleNext ==
    \/ CY_RunSingleCycle
    \/ CY_Stop
    \/ CY_StartSession
    \/ CY_ScrapeSite
    \/ FL_RemoveDuplicates
    \/ FL_FilterAlreadyDownloaded
    \/ FL_RuleFilter
    \/ CY_Filtered
    \/ \E i \in Tasks : Acquire(i)
    \/ \E i \in Tasks : ResponseError(i)
    \/ \E i \in Tasks : ResponseOk(i)
    \/ \E i \in Tasks : Chunk(i)
    \/ \E i \in Tasks : StreamError(i)
    \/ \E i \in Tasks : StreamEnd(i)
    \/ \E i \in Tasks : Wake(i)
    \/ JoinReturn(TRUE)
    \/ JoinRaise
    \/ CY_Downloaded
    \/ CY_DownloadRaised
    \/ CY_SiteProcessed
    \/ CY_SiteFailed

\* What a site's page lists, with the site's configuration.
Sites ==
    {[scraped |-> <<>>, site_config |-> SiteStrict],
     [scraped |-> <<LinkA>>, site_config |-> SiteOpen],
     [scraped |-> <<LinkA, LinkA, LinkB>>, site_config |-> SiteStrict]}

SiteOther == [SiteOpen EXCEPT !.name = "other"]

\* The runs explored: one site cycled twice, or two sites cycled once; the
\* two sites are different ones, or the same site named twice
\* (run_single_cycle(["site", "site"]) appends it once per name).
Plans ==
    {[sites |-> <<s>>, rerun |-> TRUE] : s \in Sites}
    \cup {[sites |-> <<[scraped |-> <<LinkA>>, site_config |-> SiteOpen],
                       [scraped |-> <<LinkC>>, site_config |-> SiteOther]>>,
           rerun |-> FALSE],
          [sites |-> <<[scraped |-> <<LinkA>>, site_config |-> SiteOpen],
                       [scraped |-> <<>>, site_config |-> SiteOpen]>>,
           rerun |-> FALSE]}

CycleInit ==
    /\ \E p \in Plans, e \in Engines :
         cy = [pc |-> "ready", run |-> "none", rerun |-> p.rerun,
               sites |-> p.sites, k |-> 0, is_running |-> FALSE, stop_at |-> 0,
               outcomes |-> <<>>, processed_sites |-> 0,
               cycle_stats |-> NoCycleStats, entries |-> <<>>, sessions |-> <<>>,
               scraped |-> <<>>, site_config |-> p.sites[1].site_config,
               engine |-> e, succeeded |-> {},
               llm_calls |-> 0, downloading |-> <<>>, site_stats |-> NoSiteStats]
    /\ store = <<>> /\ files = <<>> /\ site = SiteName
    /\ links = <<>> /\ wk = <<>> /\ fetches = <<>> /\ waits = <<>>
    /\ dl = DlIdle /\ fl = FlIdle /\ ws = WsIdle

SpecCycle == CycleInit /\ [][CycleNext]_vars

----------------------------------------------------------------------------
(* WebScraper: the per-site rate limiter and scrape_site.  Time is counted *)
(* in ticks; ws.now is time.time().                                        *)

\* The 60 seconds of the rate limiter's window, in ticks.
Minute == 4
\* The clock stops here.
MaxTime == 7
\* scrape_site calls explored.
MaxScrapes == 3

\* SiteConfig as the scraper reads it: name, rate_limit, pagination, and
\* the pages the site can serve (the links of each); whether a served page
\* shows a usable next control is the site's choice, the last page never
\* does.
SitePaged ==
    [name |-> "paged", requests_per_minute |-> 1, delay_between_requests |-> 0,
     pagination_enabled |-> TRUE, max_pages |-> 2,
     pages |-> <<<<LinkA>>, <<LinkC>>, <<LinkB>>>>]

SiteFlat ==
    [name |-> "flat", requests_per_minute |-> 2, delay_between_requests |-> 2,
     pagination_enabled |-> FALSE, max_pages |-> 1,
     pages |-> <<<<LinkB>>>>]

ScrapeSites == {SitePaged, SiteFlat}

SiteNames == {s.name : s \in ScrapeSites}

\* [req_time for req_time in ... if req_time > minute_ago]
Purge(counts, current_time) ==
    SelectSeq(counts, LAMBDA t : t > current_time - Minute)

LimitSleepTimeNone(current_time, oldest) == 0

\* sleep_time = 60 - (current_time - self._request_counts[site_name][0])
LimitSleepTime(current_time, oldest) == Minute - (current_time - oldest)

DelaySleepTimeNone(min_delay, time_since_last) == 0

\* sleep_time = min_delay - time_since_last
DelaySleepTime(min_delay, time_since_last) == min_delay - time_since_last

RateLimitRecordShared(w, s) ==
    [w EXCEPT !.request_counts = [n \in DOMAIN @ |-> Append(@[n], w.now)],
              !.last_request_time = [n \in DOMAIN @ |-> w.now],
              !.stamps[s.name] = Append(@, w.now),
              !.pc = w.after]

\* "Record this request", and on to what the limiter was acquired for.
RateLimitRecord(w, s) ==
    [w EXCEPT !.request_counts[s.name] = Append(@, w.now),
              !.last_request_time[s.name] = w.now,
              !.stamps[s.name] = Append(@, w.now),
              !.pc = w.after]

RateLimitDelaySkipsRecord(w, s) == [w EXCEPT !.pc = w.after]

\* "Check delay between requests", with the current_time read on entry;
\* -1 stands for a site that is not in _last_request_time.
RateLimitDelay(w, s) ==
    LET last == w.last_request_time[s.name]
        time_since_last == w.current_time - last
    IN IF last # -1 /\ time_since_last < s.delay_between_requests
          /\ DelaySleepTime(s.delay_between_requests, time_since_last) > 0
       THEN [w EXCEPT !.pc = "delay_sleep",
                      !.wake = w.now + DelaySleepTime(s.delay_between_requests,
                                                      time_since_last)]
       ELSE RateLimitRecord(w, s)

\* _rate_limit up to its first await: the window is purged, and at the
\* limit the caller sleeps until the oldest entry is a minute old.
RateLimit(w, s, after) ==
    LET kept == Purge(w.request_counts[s.name], w.now)
        w1 == [w EXCEPT !.request_counts[s.name] = kept,
                        !.current_time = w.now, !.after = after]
    IN IF Len(kept) >= s.requests_per_minute
          /\ LimitSleepTime(w.now, kept[1]) > 0
       THEN [w1 EXCEPT !.pc = "limit_sleep",
                       !.wake = w.now + LimitSleepTime(w.now, kept[1])]
       ELSE RateLimitDelay(w1, s)

\* scrape_site returns.
ScrapeReturn(w, found) == [w EXCEPT !.pc = "returned", !.result = found]

\* `except Exception` of scrape_site: log_error, return [].
ScrapeFailed(w) ==
    [w EXCEPT !.pc = "returned", !.result = <<>>, !.failed = TRUE,
              !.logged = @ + 1]

AfterPageUnbounded(w0, next_link) ==
    LET s == w0.site
        w == [w0 EXCEPT !.next_link = next_link]
    IN IF s.pagination_enabled /\ next_link
       THEN RateLimit(w, s, "next_page")
       ELSE ScrapeReturn(w, w.links)

\* After a page, with next_link telling whether it shows a usable next
\* control: follow it while page_count < max_pages (through the rate
\* limiter), otherwise return what was found.
AfterPage(w0, next_link) ==
    LET s == w0.site
        w == [w0 EXCEPT !.next_link = next_link]
    IN IF s.pagination_enabled /\ next_link /\ w.page_count < s.max_pages
       THEN RateLimit(w, s, "next_page")
       ELSE ScrapeReturn(w, w.links)

\* The next controls a page can show when `served` pages have been served.
NextLinks(s, served) == IF served < Len(s.pages) THEN BOOLEAN ELSE {FALSE}

\* A caller is suspended in asyncio.sleep and its time has not come.
Sleeping(w) == w.pc \in {"limit_sleep", "delay_sleep"} /\ w.now < w.wake

\* asyncio: time passes between any two steps; past MaxTime it only passes
\* for a sleeper.
WS_Tick ==
    /\ ws.now < MaxTime \/ Sleeping(ws)
    /\ ws' = [ws EXCEPT !.now = @ + 1]
    /\ UNCHANGED <<dlVars, fl, cy>>

\* scrape_site(site_config): robots.txt is consulted, then the rate limiter
\* is acquired once for the site.
WS_ScrapeSite(s) ==
    /\ ws.pc \in {"ready", "returned"}
    /\ ws.calls < MaxScrapes
    /\ \E allowed \in BOOLEAN :
         LET w == [ws EXCEPT !.calls = @ + 1, !.site = s, !.links = <<>>,
                             !.page_count = 0, !.next_link = FALSE,
                             !.failed = FALSE,
                             !.result = <<>>, !.engine = "none"]
         IN ws' = IF allowed THEN RateLimit(w, s, "probe")
                  ELSE ScrapeReturn(w, <<>>)
    /\ UNCHANGED <<dlVars, fl, cy>>

\* asyncio.sleep(sleep_time) of the window check is over (not before its
\* time); the delay check follows without a new reading of the clock.
WS_LimitWake ==
    /\ ws.pc = "limit_sleep"
    /\ ws.now >= ws.wake
    /\ ws' = RateLimitDelay(ws, ws.site)
    /\ UNCHANGED <<dlVars, fl, cy>>

\* asyncio.sleep(sleep_time) of the delay check is over.
WS_DelayWake ==
    /\ ws.pc = "delay_sleep"
    /\ ws.now >= ws.wake
    /\ ws' = RateLimitRecord(ws, ws.site)
    /\ UNCHANGED <<dlVars, fl, cy>>

\* What the probe's session.get can bring: an exception, or a response
\* with its status, the number of <script> tags, whether the markup holds
\* one of js_indicators, and the text lengths of the elements that
\* main_selectors find.
Probes ==
    {[failed |-> TRUE, status |-> 0, script_tags |-> 0, indicator |-> FALSE,
      main_text |-> {}]}
    \cup [failed : {FALSE}, status : {200, 204, 404, 500}, script_tags : {10, 11},
          indicator : BOOLEAN, main_text : SUBSET {99, 100}]

\* WebScraper._requires_javascript
RequiresJavascript(probe) ==
    IF probe.failed THEN TRUE
    ELSE IF probe.status # 200 THEN TRUE
    ELSE IF probe.script_tags > 10 THEN TRUE
    ELSE IF probe.indicator THEN TRUE
    ELSE IF \E n \in probe.main_text : n < 100 THEN TRUE
    ELSE FALSE

\* _requires_javascript: one session.get of the site's page; any failure
\* and any non-200 status choose Playwright.
WS_RequiresJavascript ==
    /\ ws.pc = "probe"
    /\ \E probe \in Probes :
         ws' = [ws EXCEPT !.requests[ws.site.name] = @ + 1,
                          !.engine = IF RequiresJavascript(probe)
                                     THEN "playwright" ELSE "aiohttp",
                          !.pc = "first_page"]
    /\ UNCHANGED <<dlVars, fl, cy>>

\* _scrape_with_aiohttp / _scrape_with_playwright: the first page is
\* fetched (session.get or page.goto); a failure is re-raised to
\* scrape_site, otherwise the links are extracted and pagination starts.
WS_FirstPage ==
    /\ ws.pc = "first_page"
    /\ \E ok \in BOOLEAN, next_link \in NextLinks(ws.site, 1) :
         LET w == [ws EXCEPT !.requests[ws.site.name] = @ + 1]
         IN ws' = IF ok
                  THEN AfterPage([w EXCEPT !.links = ws.site.pages[1],
                                           !.page_count = 1], next_link)
                  ELSE ScrapeFailed(w)
    /\ UNCHANGED <<dlVars, fl, cy>>

\* _handle_pagination_aiohttp / _handle_pagination_playwright: the next
\* page is fetched; a non-200 status breaks the loop and an exception is
\* logged as a warning, and either way the links found so far are returned.
WS_NextPage ==
    /\ ws.pc = "next_page"
    /\ \E ok \in BOOLEAN, next_link \in NextLinks(ws.site, ws.page_count + 1) :
         LET w == [ws EXCEPT !.requests[ws.site.name] = @ + 1]
         IN ws' = IF ok
                  THEN AfterPage([w EXCEPT
                          !.links = @ \o ws.site.pages[ws.page_count + 1],
                          !.page_count = @ + 1], next_link)
                  ELSE ScrapeReturn([w EXCEPT !.failed = TRUE], w.links)
    /\ UNCHANGED <<dlVars, fl, cy>>

ScrapeNext ==
    \/ WS_Tick
    \/ \E s \in ScrapeSites : WS_ScrapeSite(s)
    \/ WS_LimitWake
    \/ WS_DelayWake
    \/ WS_RequiresJavascript
    \/ WS_FirstPage
    \/ WS_NextPage

ScrapeInit ==
    /\ ws = [pc |-> "ready", now |-> 0, calls |-> 0,
             request_counts |-> [n \in SiteNames |-> <<>>],
             last_request_time |-> [n \in SiteNames |-> -1],
             stamps |-> [n \in SiteNames |-> <<>>],
             requests |-> [n \in SiteNames |-> 0],
             site |-> SiteFlat, current_time |-> 0, wake |-> 0, after |-> "probe",
             engine |-> "none", links |-> <<>>, page_count |-> 0,
             next_link |-> FALSE,
             failed |-> FALSE, logged |-> 0, result |-> <<>>]
    /\ store = <<>> /\ files = <<>> /\ site = SiteName
    /\ links = <<>> /\ wk = <<>> /\ fetches = <<>> /\ waits = <<>>
    /\ dl = DlIdle /\ fl = FlIdle /\ cy = CyIdle

SpecScrape == ScrapeInit /\ [][ScrapeNext]_vars

\* The event loop keeps running: the clock advances while it can and a
\* sleeper whose time has come is resumed.
SpecScrapeLive ==
    /\ ScrapeInit
    /\ [][ScrapeNext]_vars
    /\ WF_vars(WS_Tick)
    /\ WF_vars(WS_LimitWake)
    /\ WF_vars(WS_DelayWake)

----------------------------------------------------------------------------
(* _requires_javascript called on its own: ws holds the probe's outcome    *)
(* and the answer.                                                         *)

PR_RequiresJavascript ==
    /\ ws.pc = "probing"
    /\ ws' = [ws EXCEPT !.pc = "probed",
                        !.requires_javascript = RequiresJavascript(ws.probe)]
    /\ UNCHANGED <<dlVars, fl, cy>>

ProbeInit ==
    /\ \E probe \in Probes :
         ws = [pc |-> "probing", probe |-> probe, requires_javascript |-> FALSE]
    /\ store = <<>> /\ links = <<>> /\ site = SiteName /\ files = <<>>
    /\ wk = <<>> /\ fetches = <<>> /\ waits = <<>>
    /\ dl = DlIdle /\ fl = FlIdle /\ cy = CyIdle

SpecProbe == ProbeInit /\ [][PR_RequiresJavascript]_vars

----------------------------------------------------------------------------
(* The download manager: retry budget and the per-link state machine.      *)

\* C1: for every link handed to download_files and every outcome of its
\* fetches, the DownloadResult produced has 0 <= retry_count <= max_retries
\* and the link is fetched at most max_retries + 1 times.
C1_RetryCountWithinBudget ==
    /\ \A i \in Tasks :
          /\ fetches[i] <= MaxRetries + 1
          /\ wk[i].pc = "done" =>
                /\ wk[i].result.retry_count >= 0
                /\ wk[i].result.retry_count <= MaxRetries
    /\ \A k \in DOMAIN dl.results :
          /\ dl.results[k].result.retry_count >= 0
          /\ dl.results[k].result.retry_count <= MaxRetries

\* A link that used its whole budget: every attempt fetched and failed.
C1_Witness ==
    \E i \in Tasks :
        /\ wk[i].pc = "done"
        /\ ~wk[i].result.success
        /\ wk[i].result.retry_count = MaxRetries
        /\ fetches[i] = MaxRetries + 1

\* The waits retry_delay * 1, ..., retry_delay * n.
BackoffWaits(n) == [k \in 1..n |-> RetryDelay * k]

InAttempt(w) == w.pc \in {"get", "stream"}

\* One step of task i, as the state machine of a link allows it.
C2_Step(i) ==
    /\ \* an attempt ends in failure
       (InAttempt(wk[i]) /\ ~InAttempt(wk'[i])
            /\ ~(wk'[i].pc = "done" /\ wk'[i].result.success)) =>
          IF wk[i].attempt < MaxRetries
          THEN /\ wk'[i].pc = "sleep"
               /\ waits'[i] = Append(waits[i], RetryDelay * (wk[i].attempt + 1))
          ELSE /\ wk'[i].pc \in {"done", "raised"}
               /\ waits'[i] = waits[i]
               /\ wk'[i].pc = "done" =>
                     /\ wk'[i].result.retry_count = MaxRetries
                     /\ wk'[i].result.error[2] = wk[i].attempt
    /\ \* after the wait comes the next attempt
       (wk[i].pc = "sleep" /\ wk'[i] # wk[i]) =>
          /\ wk'[i].attempt = wk[i].attempt + 1
          /\ wk'[i].attempt <= MaxRetries
          /\ InAttempt(wk'[i]) \/ wk'[i].pc = "done"
    /\ \* Succeeded and FailedTerminal are terminal
       (wk[i].pc \in {"done", "raised"}) =>
          /\ wk'[i] = wk[i]
          /\ fetches'[i] = fetches[i]
          /\ waits'[i] = waits[i]
    /\ \* the waits so far are retry_delay * 1, 2, ...
       waits'[i] = BackoffWaits(wk'[i].attempt + (IF wk'[i].pc = "sleep" THEN 1 ELSE 0))

C3_ExistingFileShortCircuit ==
    [][\A i \in Tasks :
          (/\ wk[i].pc \in {"pending", "sleep"}
           /\ wk'[i] # wk[i]
           /\ FileExists(FinalFilename(links[i], site), files)) =>
              /\ fetches'[i] = fetches[i]
              /\ DOMAIN files' = DOMAIN files
              /\ wk'[i].pc = "done"
              /\ wk'[i].result.success
              /\ wk'[i].result.file_size = files[FinalFilename(links[i], site)].size]_vars

\* C7: within one download_files call of pool width >= 2, two tasks handling
\* different links never hold the same destination path between the path
\* choice and the end of the write.
C7_NoSharedDestination ==
    dl.concurrent_downloads >= 2 =>
        \A i, j \in Tasks :
            (i # j /\ InAttempt(wk[i]) /\ InAttempt(wk[j])) =>
                wk[i].path # wk[j].path

----------------------------------------------------------------------------
(* The filter pipeline.                                                    *)

\* Index of the first occurrence of x in s (0 if there is none).
FirstIndex(s, x) ==
    IF x \in Range(s) THEN CHOOSE k \in DOMAIN s : s[k] = x /\ \A j \in 1..(k - 1) : s[j] # x
    ELSE 0

\* out lists members of in, and any two different ones in the order of in.
KeepsOrder(in, out) ==
    /\ Range(out) \subseteq Range(in)
    /\ \A p, q \in DOMAIN out :
         (p < q /\ out[p] # out[q]) => FirstIndex(in, out[p]) < FirstIndex(in, out[q])

\* The stages of a returned call as <<input, output>> pairs; the
\* intelligent stage only when it ran.
StagePairs(f) ==
    {<<f.links, f.unique_links>>, <<f.unique_links, f.new_links>>,
     <<f.new_links, f.rule_filtered_links>>, <<f.rule_filtered_links, f.final_links>>}

\* C5: when filter_links has returned, every stage (dedup, history check,
\* rule filter, intelligent filter) put out at most as many links as it
\* was given, whatever the capability answered.
C5_StagesNeverGrow ==
    fl.pc = "done" => \A st \in StagePairs(fl) : Len(st[2]) <= Len(st[1])

\* C6: when filter_links has returned, every stage put out its survivors
\* in the relative order they had in the stage's input, whatever order the
\* capability's response listed them in.
C6_StagesKeepOrder ==
    fl.pc = "done" => \A st \in StagePairs(fl) : KeepsOrder(st[1], st[2])

\* A response the parser cannot use: not JSON, or an entry it cannot read.
Malformed(response) ==
    \/ response.kind = "notjson"
    \/ \E k \in DOMAIN response.docs : ~response.docs[k].wellformed

\* The links the batch loop has consumed so far.
Consumed(f) ==
    SubSeq(f.rule_filtered_links, 1,
           IF f.i - 1 < Len(f.rule_filtered_links) THEN f.i - 1
           ELSE Len(f.rule_filtered_links))

C9_BatchStep ==
    (fl.pc = "llm" /\ fl'.pc = "llm" /\ fl'.i # fl.i
       /\ (fl'.response.kind = "error" \/ Malformed(fl'.response)))
    => /\ fl'.batch = BatchAt(fl.rule_filtered_links, fl.i)
       /\ fl'.batch_filtered = fl'.batch
       /\ fl'.filtered_links = fl.filtered_links \o fl'.batch
       /\ fl'.llm_stats.llm_processing_error
            = fl.llm_stats.llm_processing_error + Len(fl'.batch)

C9_AllFailed ==
    (fl.pc \in {"llm", "done"} /\ fl.llm_filter = "real"
       /\ fl.llm_stats.llm_processing_error = Len(Consumed(fl)))
    => /\ fl.filtered_links = Consumed(fl)
       /\ fl.pc = "done" => fl.final_links = fl.rule_filtered_links

\* C9: a batch whose capability call fails or whose response is malformed
\* passes through as its input, in order, and llm_processing_error grows
\* by the size of the batch; when every batch so far failed, the stage has
\* put out all the input it consumed, never an empty list.
C9_BatchFallback == [][C9_BatchStep]_vars /\ []C9_AllFailed

\* Three links that pass the rule filter, two batches, both failed.
C9_Witness ==
    /\ fl.pc = "done" /\ fl.llm_filter = "real"
    /\ Len(fl.rule_filtered_links) = 3
    /\ fl.llm_stats.llm_processing_error = 3
    /\ fl.final_links = fl.rule_filtered_links

\* C10: filter_links never raises because of the intelligent stage; when
\* the filter failed to initialise, is disabled or not asked for, or its
\* filter_links call raises, the call returns the rule-filter survivors.
C10_NeverRaises ==
    /\ fl.pc # "raised"
    /\ (fl.pc = "done" /\ (~UsesLLM(fl) \/ fl.llm_filter = "raises"))
         => fl.final_links = RuleFilterLinks(
                FilterAlreadyDownloaded(RemoveDuplicates(fl.links), store),
                fl.site_config).links

C10_Witness ==
    /\ fl.pc = "done" /\ UsesLLM(fl) /\ fl.llm_filter = "raises"
    /\ fl.llm_calls = 1
    /\ Len(fl.final_links) = 2

----------------------------------------------------------------------------
(* The cycle.                                                              *)

\* C4: in the second run of the same site on the same store and directory,
\* no URL that the store recorded as downloaded successfully in the first
\* run is fetched.
C4_NoRefetchInSecondRun ==
    cy.run = "second" =>
        \A i \in DOMAIN links : links[i] \in cy.succeeded => fetches[i] = 0

\* The second run has ended, on a page that again listed the URL the first
\* run downloaded.
C4_Witness ==
    /\ cy.run = "second" /\ cy.pc = "returned"
    /\ UrlA \in cy.succeeded
    /\ UrlA \in Range(UrlsOf(cy.scraped))
    /\ UrlA \in DOMAIN store /\ store[UrlA].success

\* The filter stage of the cycle is over (the site listed links).
CycleFiltered ==
    cy.pc \in {"download", "returned"} /\ cy.site_stats.links_found > 0

\* C8: in a cycle, for a site whose llm.use_llm is set, with the engine's
\* LLM enabled and initialised, the intelligent filter is invoked exactly
\* once; for a site whose llm.use_llm is not set it is never invoked.
C8_IntelligentFilterPerSitePolicy ==
    CycleFiltered =>
        /\ (cy.site_config.use_llm /\ cy.engine.enabled /\ cy.engine.llm_filter = "real")
             => cy.llm_calls = 1
        /\ ~cy.site_config.use_llm => cy.llm_calls = 0

----------------------------------------------------------------------------
(* The download manager: the disk, the worker pool and the results.        *)

\* The attempt of task i that last chose a path has ended.
AttemptEnded(i) == wk[i].pc \in {"sleep", "done", "raised"} /\ wk[i].path # NoPath

\* C15: once an attempt has ended, in success or in error, the file it
\* wrote is not larger than the configured maximum: an attempt that
\* exceeds the limit mid-stream fails and its partial file is gone.
C15_NoOversizedFile ==
    \A i \in Tasks :
        (AttemptEnded(i) /\ FileExists(wk[i].path, files))
            => files[wk[i].path].size <= MaxSizeBytes

\* A link whose last attempt was aborted mid-stream as a size violation.
C15_Witness ==
    \E i \in Tasks :
        /\ wk[i].pc = "done" /\ ~wk[i].result.success
        /\ wk[i].result.error[1] = "File too large during download"
        /\ ~FileExists(wk[i].path, files)

\* The files this call of download_files created (the files found in the
\* directory carry the inode of an earlier call).
CreatedFiles == {p \in DOMAIN files : files[p].ino[1] # 0}

SuccessfulResults == {k \in DOMAIN dl.results : dl.results[k].result.success}

\* C16: after download_files has returned, the files it created are
\* exactly the file_path of its successful results, one file per
\* successful result.
C16_FilesAreSuccessfulResults ==
    dl.pc = "returned" =>
        /\ CreatedFiles = {dl.results[k].result.file_path : k \in SuccessfulResults}
        /\ \A k, n \in SuccessfulResults :
              k # n => dl.results[k].result.file_path # dl.results[n].result.file_path

\* The links whose download is in progress: an attempt, or the wait
\* before the next one.
InProgress == {i \in Tasks : wk[i].pc \in {"get", "stream", "sleep"}}

\* C17: during download_files at most concurrent_downloads links are in
\* progress at any moment, waits between retries included, and the
\* statistics are only computed once every worker has finished.
C17_BoundedWorkerPool ==
    /\ Cardinality(InProgress) <= dl.concurrent_downloads
    /\ dl.pc = "returned" => \A i \in Tasks : wk[i].pc \in {"done", "raised"}

\* The pool is full with a link waiting for its retry, and another link
\* is kept waiting for a slot.
C17_Witness ==
    /\ Cardinality(InProgress) = dl.concurrent_downloads
    /\ \E i \in Tasks : wk[i].pc = "sleep"
    /\ \E i \in Tasks : wk[i].pc = "pending"

\* C18: download_files returns, with exactly one result for every input
\* link in link order, and successful_downloads + failed_downloads =
\* total_files, whichever links fail and wherever they fail.
C18_OneResultPerLink ==
    /\ dl.pc # "raised"
    /\ dl.pc = "returned" =>
          /\ Len(dl.results) = Len(links)
          /\ \A k \in DOMAIN dl.results : dl.results[k].link = links[k]
          /\ dl.stats.successful_downloads + dl.stats.failed_downloads
                = dl.stats.total_files

----------------------------------------------------------------------------
(* The scraper: rate limiting and extraction failures.                     *)

\* The timestamps s recorded that lie in the minute starting at stamp k.
InWindowFrom(s, k) ==
    {j \in DOMAIN ws.stamps[s.name] :
        /\ ws.stamps[s.name][j] >= ws.stamps[s.name][k]
        /\ ws.stamps[s.name][j] < ws.stamps[s.name][k] + Minute}

\* C12: for every site, at most requests_per_minute of the timestamps the
\* rate limiter recorded for it lie in any window of one minute; with one
\* request per minute the second timestamp is at least a minute after the
\* first.
C12_RateWindow ==
    \A s \in ScrapeSites : \A k \in DOMAIN ws.stamps[s.name] :
        Cardinality(InWindowFrom(s, k)) <= s.requests_per_minute

\* The one-per-minute site was requested again and the limiter made the
\* request wait for the window.
C12_Witness ==
    /\ Len(ws.stamps[SitePaged.name]) >= 2
    /\ ws.stamps[SitePaged.name][2] = ws.stamps[SitePaged.name][1] + Minute

\* C13: for every site, two consecutive recorded timestamps are at least
\* delay_between_requests apart.
C13_MinimumDelay ==
    \A s \in ScrapeSites : \A k \in DOMAIN ws.stamps[s.name] :
        k > 1 => ws.stamps[s.name][k] - ws.stamps[s.name][k - 1]
                    >= s.delay_between_requests

\* A request held back by the delay alone, exactly the delay after the one
\* before it.
C13_Witness ==
    /\ Len(ws.stamps[SiteFlat.name]) >= 2
    /\ ws.stamps[SiteFlat.name][2]
         = ws.stamps[SiteFlat.name][1] + SiteFlat.delay_between_requests
    /\ SiteFlat.delay_between_requests > 0

\* C14: every request the scraper issues to a site (probe, first page,
\* pagination) has its own rate-limiter acquisition: the timestamps
\* recorded for a site are as many as the requests issued to it.
C14_OneAcquisitionPerRequest ==
    ws.pc \in {"ready", "returned"} =>
        \A s \in ScrapeSites : Len(ws.stamps[s.name]) = ws.requests[s.name]

\* C20: when the first page or a later page could not be fetched or
\* parsed, scrape_site returns no link and has logged the error.
C20_FailedExtractionYieldsNothing ==
    [][(ws.pc # "returned" /\ ws'.pc = "returned" /\ ws'.failed)
         => (ws'.result = <<>> /\ ws'.logged = ws.logged + 1)]_vars

\* C11: once stop has been called while the cycle processes site k, the
\* cycle starts no site after k and calls download_files no more; the
\* downloads in flight go on undisturbed.
C11_StopHaltsCycle ==
    [][(cy.stop_at # 0 /\ ~cy.is_running)
         => /\ cy'.k = cy.k
            /\ (dl.pc = "idle" => dl'.pc = "idle")]_vars

\* One step of the cycle after a failure: the exception does not leave
\* run_single_cycle, the site is recorded as failed without being counted
\* as processed, and the loop takes up the next site or returns.
C19_Step ==
    /\ cy'.pc # "cycle_raised"
    /\ (cy.pc = "site_raised" /\ cy'.pc # cy.pc)
         => /\ cy'.outcomes = Append(cy.outcomes, "error")
            /\ cy'.processed_sites = cy.processed_sites
            /\ IF cy.k < Len(cy.sites)
               THEN cy'.pc = "start" /\ cy'.k = cy.k + 1
               ELSE cy'.pc = "cycle_returned"
    /\ cy'.pc = "cycle_returned" => Len(cy'.outcomes) = Len(cy.sites)

\* C19: no failure of a link or of a site leaves run_single_cycle: when
\* processing site k raises, the failure is recorded for k, every later
\* site is still processed, and the cycle returns its summary.
C19_NoFailureLeavesCycle == [][C19_Step]_vars

\* Site 1 raised, site 2 was processed, and the cycle returned.
C19_Witness ==
    /\ cy.pc = "cycle_returned"
    /\ cy.outcomes = <<"error", "stats">>
    /\ cy.processed_sites = 1

----------------------------------------------------------------------------
(* The intelligent filter, batch by batch.                                 *)

\* The batch loop has just taken a turn whose response was parsed.
BatchAnswered ==
    fl.pc = "llm" /\ fl'.pc = "llm" /\ fl'.i # fl.i
    /\ fl'.response.kind = "json" /\ ~Malformed(fl'.response)

\* C21: for a batch whose response was parsed, a link is put out only if
\* the response has an entry for its URL with include true and a relevance
\* score of at least the site's relevance_threshold.
C21_KeptOnlyIfIncludedAndScored ==
    [][BatchAnswered =>
         \A k \in DOMAIN fl'.batch_filtered :
            \E d \in DOMAIN fl'.response.docs :
               LET doc == fl'.response.docs[d]
               IN /\ doc.url = fl'.batch_filtered[k].url
                  /\ doc.include
                  /\ doc.relevance_score >= fl.site_config.relevance_threshold]_vars

\* A parsed response with an entry scored below the threshold and an entry
\* at it: one link of the batch was kept, the other was not.
C21_Witness ==
    /\ fl.pc = "llm" /\ fl.response.kind = "json" /\ ~Malformed(fl.response)
    /\ Len(fl.batch) = 2 /\ Len(fl.batch_filtered) = 1
    /\ fl.llm_stats.llm_low_confidence = 1

\* C22: for a batch whose response was parsed, every dropped link is
\* counted: the size of the batch is the number of survivors plus what the
\* batch added to llm_relevance_filter and to llm_low_confidence.
C22_DropsAreCounted ==
    [][BatchAnswered =>
         Len(fl'.batch) = Len(fl'.batch_filtered)
            + (fl'.llm_stats.llm_relevance_filter - fl.llm_stats.llm_relevance_filter)
            + (fl'.llm_stats.llm_low_confidence - fl.llm_stats.llm_low_confidence)]_vars

----------------------------------------------------------------------------
(* What the cycle hands to the downloader.                                 *)

\* _process_site calls download_files in this step.
CallsDownloadFiles == cy.pc = "filter" /\ cy'.pc = "download"

\* C23: the list passed to download_files has no two links with the same
\* URL, no link whose URL the store reports as already downloaded, and
\* only links that pass the rule filter of the site.
C23_DownloadListIsApproved ==
    [][CallsDownloadFiles =>
         /\ links' = UrlsOf(cy'.downloading)
         /\ Distinct(links')
         /\ \A k \in DOMAIN cy'.downloading :
               LET l == cy'.downloading[k]
               IN /\ ~IsAlreadyDownloaded(store, l.url)
                  /\ RuleFilterLinks(<<l>>, cy.site_config).links = <<l>>]_vars

\* The page listed a link twice and a link the rule filter rejects; one
\* link is being downloaded.
C23_Witness ==
    /\ cy.pc = "download"
    /\ Len(cy.scraped) = 3 /\ ~Distinct(UrlsOf(cy.scraped))
    /\ Len(cy.downloading) = 1 /\ dl.pc = "running"

----------------------------------------------------------------------------
(* The rule filter.                                                        *)

\* A keyword of `terms` occurs in the link's text, case ignored.
Matches(l, terms) == \E t \in terms : Lower(t) \in TextToCheck(l)

\* The first check a link fails, in the order type, include, exclude, URL.
FirstFailing(l, sc) ==
    CASE sc.file_types # {} /\ Lower(l.file_type) \notin {Lower(t) : t \in sc.file_types}
           -> "file_type_filter"
      [] sc.include # {} /\ ~Matches(l, sc.include) -> "include_filter"
      [] Matches(l, sc.exclude) -> "exclude_filter"
      [] l.url[1] \notin {"http", "https"} -> "url_pattern_filter"
      [] OTHER -> "none"

RuleFiltered == fl.pc \in {"filtered", "prioritized"}

Rejected(r) == {i \in DOMAIN fl.links : FirstFailing(fl.links[i], fl.site_config) = r}

\* C24: the survivors of the rule filter are the links that pass the four
\* checks, every rejected link is counted once, under the first check it
\* fails, and the input count is the survivors plus the four counters; for
\* allowed types {.pdf} and link types .pdf, .csv, .pdf there are two
\* survivors and file_type_filter = 1.
C24_RuleFilterCounts ==
    RuleFiltered =>
        LET Passes(l) == FirstFailing(l, fl.site_config) = "none"
        IN /\ fl.filtered_links = SelectSeq(fl.links, Passes)
           /\ \A r \in DOMAIN NoRuleReasons : fl.reasons[r] = Cardinality(Rejected(r))
           /\ Len(fl.links) = Len(fl.filtered_links)
                  + fl.reasons.file_type_filter + fl.reasons.include_filter
                  + fl.reasons.exclude_filter + fl.reasons.url_pattern_filter
           /\ (fl.site_config = SitePdfOnly /\ fl.links = <<LinkA, LinkC, LinkQ>>)
                 => /\ fl.filtered_links = <<LinkA, LinkQ>>
                    /\ fl.reasons.file_type_filter = 1

\* Only .pdf allowed, links of types .pdf, .csv, .pdf.
C24_Witness ==
    /\ fl.pc = "filtered" /\ fl.site_config.file_types = {".pdf"}
    /\ [i \in DOMAIN fl.links |-> fl.links[i].file_type] = <<".pdf", ".csv", ".pdf">>
    /\ Len(fl.filtered_links) = 2 /\ fl.reasons.file_type_filter = 1

\* C25: with include keywords configured, a link of an allowed type that
\* matches none is dropped and counted under include_filter, and a link
\* that matches one, matches no exclude keyword and has a valid URL
\* survives; without include keywords include_filter stays 0.
C25_IncludeKeywords ==
    RuleFiltered =>
        LET sc == fl.site_config
            allowed(l) == sc.file_types = {}
                          \/ Lower(l.file_type) \in {Lower(t) : t \in sc.file_types}
            missed == {i \in DOMAIN fl.links :
                         allowed(fl.links[i]) /\ ~Matches(fl.links[i], sc.include)}
        IN IF sc.include = {} THEN fl.reasons.include_filter = 0
           ELSE /\ fl.reasons.include_filter = Cardinality(missed)
                /\ \A i \in missed : fl.links[i] \notin Range(fl.filtered_links)
                /\ \A i \in DOMAIN fl.links :
                      LET l == fl.links[i]
                      IN (allowed(l) /\ Matches(l, sc.include) /\ ~Matches(l, sc.exclude)
                            /\ l.url[1] \in {"http", "https"})
                         => l \in Range(fl.filtered_links)

\* Include keyword "2024": the link titled with 2024 survives, the
\* quarterly update is dropped under include_filter.
C25_Witness ==
    /\ fl.pc = "filtered" /\ fl.site_config.include = {"2024"}
    /\ fl.links = <<LinkA, LinkQ>>
    /\ fl.filtered_links = <<LinkA>> /\ fl.reasons.include_filter = 1

----------------------------------------------------------------------------
(* prioritize_links.                                                       *)

\* The one-to-one maps from the positions of `in` onto those of `out`.
Placements(in, out) ==
    {p \in [DOMAIN in -> DOMAIN out] :
        \A i, j \in DOMAIN in : i # j => p[i] # p[j]}

\* C26: prioritize_links returns a permutation of its input in descending
\* order of total score, and links of equal score keep the relative order
\* they had in the input.
C26_StablePrioritySort ==
    fl.pc = "prioritized" =>
        LET in == fl.filtered_links
            out == fl.prioritized
            score(l) == PriorityScore(l, fl.site_config)
        IN /\ Len(out) = Len(in)
           /\ \A i, j \in DOMAIN out : i < j => score(out[i]) >= score(out[j])
           /\ \E p \in Placements(in, out) :
                 /\ \A i \in DOMAIN in : out[p[i]] = in[i]
                 /\ \A i, j \in DOMAIN in :
                       (i < j /\ score(in[i]) = score(in[j])) => p[i] < p[j]

\* Two different links of equal score behind a link of lower score.
C26_Witness ==
    /\ fl.pc = "prioritized"
    /\ fl.filtered_links = <<LinkC, LinkQ, LinkA>>
    /\ PriorityScore(LinkQ, fl.site_config) = PriorityScore(LinkA, fl.site_config)
    /\ fl.prioritized = <<LinkQ, LinkA, LinkC>>

----------------------------------------------------------------------------
(* Strategy selection.                                                     *)

\* C27: the strategy is "rendered" when the probe failed, the response is
\* not 2xx, there are more script tags than the threshold, the markup has
\* a framework token, or a main-content region exists with text shorter
\* than the minimum; otherwise, so for every 2xx response that triggers
\* none of these, it is "static".
C27_StrategySelection ==
    ws.pc = "probed" =>
        (ws.requires_javascript <=>
            \/ ws.probe.failed
            \/ ws.probe.status \notin 200..299
            \/ ws.probe.script_tags > 10
            \/ ws.probe.indicator
            \/ \E n \in ws.probe.main_text : n < 100)

----------------------------------------------------------------------------
(* Pagination.                                                             *)

\* A further page is extracted only while pagination is enabled, the page
\* before it showed a usable next control and fewer than max_pages pages
\* have been extracted.
C28_Step ==
    (ws.page_count >= 1 /\ ws'.page_count > ws.page_count)
    => /\ ws'.page_count = ws.page_count + 1
       /\ ws.site.pagination_enabled
       /\ ws.next_link
       /\ ws.page_count < ws.site.max_pages

\* C28: with either engine the pages extracted for a site in one scrape,
\* the first included, never exceed max_pages, and no page is fetched
\* after one whose next control is absent or not navigable.
C28_PaginationBounded ==
    /\ [](ws.pc # "idle" => ws.page_count <= ws.site.max_pages)
    /\ [][C28_Step]_vars

\* The scrape stopped at max_pages although the last page had a next
\* control.
C28_Witness ==
    /\ ws.pc = "returned" /\ ws.site.pagination_enabled
    /\ ws.page_count = ws.site.max_pages /\ ws.page_count > 1
    /\ ws.next_link /\ ~ws.failed

----------------------------------------------------------------------------
(* The rate limiter, site by site.                                         *)

\* One step of the scraper acting for site ws'.site: the window and the
\* last-request time of every other site stay as they are, and a sleep the
\* limiter starts is computed from the site's own window and last-request
\* time and the clock alone.
C29_Step ==
    LET me == ws'.site.name
        own == Purge(ws.request_counts[me], ws.now)
    IN /\ \A n \in SiteNames \ {me} :
             /\ ws'.request_counts[n] = ws.request_counts[n]
             /\ ws'.last_request_time[n] = ws.last_request_time[n]
       /\ (ws.pc # "limit_sleep" /\ ws'.pc = "limit_sleep")
            => ws'.wake = ws.now + Minute - (ws.now - own[1])
       /\ (ws.pc # "delay_sleep" /\ ws'.pc = "delay_sleep")
            => ws'.wake = ws.now + ws'.site.delay_between_requests
                             - (ws'.current_time - ws.last_request_time[me])

\* C29: the rate limiter's state is per site: a _rate_limit call for one
\* site leaves the window and the last-request time of every other site
\* unchanged, and the delay it imposes does not depend on them.
C29_PerSiteLimiter == [][C29_Step]_vars

\* A request to the second site was recorded at once while the window of
\* the one-per-minute site was full.
C29_Witness ==
    /\ ws.stamps[SitePaged.name] # <<>> /\ ws.stamps[SiteFlat.name] # <<>>
    /\ ws.stamps[SiteFlat.name][1] >= ws.stamps[SitePaged.name][1]
    /\ ws.stamps[SiteFlat.name][1] < ws.stamps[SitePaged.name][1] + Minute
    /\ Len(ws.request_counts[SitePaged.name]) = SitePaged.requests_per_minute

----------------------------------------------------------------------------
(* The statistics of download_files.                                       *)

RECURSIVE SumWritten(_)
\* The bytes the fetches of the links in S delivered.
SumWritten(S) ==
    IF S = {} THEN 0
    ELSE LET i == CHOOSE x \in S : TRUE
         IN wk[i].written + SumWritten(S \ {i})

\* The tasks that returned a result, and the k-th of them in link order.
Returned == {i \in Tasks : wk[i].pc = "done"}
ReturnedAt(k) ==
    CHOOSE i \in Returned : Cardinality({j \in Returned : j <= i}) = k

\* C30: the statistics download_files returns are a function of the links
\* and of what each link's own fetches delivered, whatever the order in
\* which the workers ran and however wide the pool is, and every result
\* carries the link it was made for.
C30_StatsFromOwnOutcomes ==
    dl.pc = "returned" =>
        LET ok == {i \in Returned : wk[i].result.success}
        IN /\ dl.stats.total_files = Len(links)
           /\ dl.stats.successful_downloads = Cardinality(ok)
           /\ dl.stats.failed_downloads = Cardinality(Returned \ ok)
           /\ dl.stats.total_bytes = SumWritten(ok)
           /\ \A i \in ok :
                 /\ wk[i].result.file_size = wk[i].written
                 /\ wk[i].result.retry_count = wk[i].attempt
                 /\ fetches[i] = wk[i].attempt + 1
           /\ \A i \in Returned \ ok : fetches[i] = AttemptsAllowed
           /\ Len(dl.results) = Cardinality(Returned)
           /\ \A k \in DOMAIN dl.results :
                 /\ dl.results[k].link = links[ReturnedAt(k)]
                 /\ dl.results[k].result = wk[ReturnedAt(k)].result

\* Two workers streamed into the same file, one body of one chunk and one
\* empty body, and both links succeeded.
C30_Witness ==
    /\ dl.pc = "returned" /\ dl.concurrent_downloads >= 2
    /\ Len(links) = 2 /\ wk[1].path = wk[2].path
    /\ wk[1].result.success /\ wk[2].result.success
    /\ wk[1].written # wk[2].written
    /\ dl.stats.total_bytes = 1

----------------------------------------------------------------------------
(* The download history and dedup.                                         *)

C32_DedupKeepsFirst ==
    fl.pc \in {"unique", "new"} =>
        LET in == fl.links
            out == fl.unique_links
            first(u) == CHOOSE i \in DOMAIN in :
                           in[i].url = u /\ \A j \in 1..(i - 1) : in[j].url # u
        IN /\ Distinct(UrlsOf(out))
           /\ Range(UrlsOf(out)) = Range(UrlsOf(in))
           /\ \A k \in DOMAIN out : out[k] = in[first(out[k].url)]
           /\ \A j, k \in DOMAIN out :
                 j < k => first(out[j].url) < first(out[k].url)
           /\ RemoveDuplicates(out) = out

\* Two different links to one URL: the first was kept.
C32_Witness ==
    /\ fl.pc = "unique"
    /\ fl.links = <<LinkA2, LinkB, LinkA>>
    /\ fl.unique_links = <<LinkA2, LinkB>>

\* Sum of one counter over the per-site entries that hold site_stats.
RECURSIVE SumEntries(_, _, _)
SumEntries(entries, names, counter) ==
    IF names = {} THEN 0
    ELSE LET n == CHOOSE x \in names : TRUE
         IN (IF entries[n].kind = "stats" THEN entries[n].stats[counter] ELSE 0)
            + SumEntries(entries, names \ {n}, counter)

\* C33: in the record returned by run_single_cycle each aggregate counter
\* (links found, links surviving filtering, downloads attempted, downloads
\* succeeded, bytes) equals the sum of the same counter over the per-site
\* entries, and processed_sites is the number of sites whose processing
\* returned without raising.
C33_TotalsAreSumsOfEntries ==
    cy.pc = "cycle_returned" =>
        LET names == DOMAIN cy.entries
            S(counter) == SumEntries(cy.entries, names, counter)
        IN /\ cy.cycle_stats.total_links_found = S("links_found")
           /\ cy.cycle_stats.total_links_filtered = S("links_filtered")
           /\ cy.cycle_stats.total_downloads_attempted = S("downloads_attempted")
           /\ cy.cycle_stats.total_downloads_successful = S("downloads_successful")
           /\ cy.cycle_stats.total_bytes_downloaded = S("bytes_downloaded")
           /\ cy.processed_sites =
                  Cardinality({i \in 1..Len(cy.outcomes) : cy.outcomes[i] = "stats"})
\* _process_site is between start_scrape_session and its `finally`.
InSite(c) == c.pc \in {"scrape", "filter", "download"}

\* The session was completed once, with the flags of site_stats, unless the
\* completion call itself raised.
Settled(session, site_stats) ==
    \/ session.completions = 0 /\ session.completion_raised
    \/ /\ session.completions = 1
       /\ ~session.completion_raised
       /\ session.success = site_stats.success
       /\ session.files_failed =
              site_stats.downloads_attempted - site_stats.downloads_successful
       /\ session.files_failed >= 0

C37_Step ==
    LET n == Len(cy.sessions)
    IN /\ (cy.pc = "start" /\ cy'.pc = "scrape")
            => /\ cy'.sessions = Append(cy.sessions, NewSession(cy.site_config.name))
               /\ \A j \in 1..n : cy.sessions[j].completions = 1
                                     \/ cy.sessions[j].completion_raised
       /\ (InSite(cy) /\ InSite(cy'))
            => cy'.sessions = cy.sessions /\ cy.sessions[n].completions = 0
       /\ (InSite(cy) /\ cy'.pc \in {"returned", "site_raised"})
            => /\ Len(cy'.sessions) = n
               /\ \A j \in 1..(n - 1) : cy'.sessions[j] = cy.sessions[j]
               /\ cy.sessions[n].completions = 0
               /\ cy'.sessions[n].site_name = cy.site_config.name
               /\ Settled(cy'.sessions[n], cy'.site_stats)
       /\ (~InSite(cy) /\ cy.pc \notin {"start", "ready", "cycle_returned"})
            => cy'.sessions = cy.sessions

----------------------------------------------------------------------------
(* The rate limiter's two suspensions.                                     *)

\* The remainder of delay_between_requests not yet elapsed at time t since
\* the last request to the site of the call.
DelayRemainder(w, t) ==
    w.site.delay_between_requests - (t - w.last_request_time[w.site.name])

C34_Step ==
    (ws.pc # "delay_sleep" /\ ws'.pc = "delay_sleep")
        => /\ ws'.wake - ws.now = DelayRemainder(ws', ws.now)
           /\ ws'.wake > ws.now

\* C34: the minimum-delay suspension of a _rate_limit call lasts the
\* remainder of delay_between_requests not yet elapsed since the last
\* request to the site when the suspension begins, so the time the call
\* spent suspended for the window counts: after a window suspension of at
\* least delay_between_requests there is no further suspension.
C34_DelayCountsWindowSleep == [][C34_Step]_vars
\* A step in which a _rate_limit call returns to its caller.
RateLimitReturns ==
    /\ ws'.now = ws.now
    /\ ws.pc # "probe"
    /\ ws'.pc \in {"probe", "next_page"}

C35_Step ==
    IF RateLimitReturns
    THEN LET n == ws'.site.name
         IN /\ ws'.stamps[n] = Append(ws.stamps[n], ws.now)
            /\ \A m \in SiteNames \ {n} : ws'.stamps[m] = ws.stamps[m]
            /\ \A j \in 1..Len(ws.stamps[n]) : ws.stamps[n][j] <= ws.now
            /\ ws'.last_request_time[n] = ws.now
            /\ ws'.request_counts[n][Len(ws'.request_counts[n])] = ws.now
    ELSE ws'.stamps = ws.stamps

\* C35: the rate limiter only delays: every _rate_limit call (for sites with
\* requests_per_minute >= 1) that suspends is eventually resumed and
\* returns, a returning call records exactly one new timestamp for its site
\* and no other step records any, and the timestamps of sequential calls
\* are recorded in call order.
C35_OnlyDelays ==
    /\ [][C35_Step]_vars
    /\ (ws.pc \in {"limit_sleep", "delay_sleep"})
          ~> (ws.pc \notin {"limit_sleep", "delay_sleep"})

\* The third call for the site slept for the window and for the delay, and
\* returned with its timestamp after those of the first two.
C35_Witness ==
    /\ ws.pc = "probe"
    /\ ws.calls = 3
    /\ ws.stamps["flat"] = <<0, 2, 6>>
----------------------------------------------------------------------------
(* A response that is refused before the body is read.                     *)

\* Task i's attempt ends where the response is examined.
RefusedAtResponse(i) == wk[i].pc = "get" /\ wk'[i].pc \notin {"get", "stream"}

C36_Step ==
    \A i \in Tasks :
        RefusedAtResponse(i)
            => /\ files' = files
               /\ wk'[i].written = 0
               /\ IF IsFinalAttempt(wk[i].attempt)
                  THEN /\ wk'[i].pc \in {"done", "raised"}
                       /\ wk'[i].pc = "done" => ~wk'[i].result.success
                       /\ waits' = waits
                  ELSE /\ wk'[i].pc = "sleep"
                       /\ waits'[i] = Append(waits[i], RetryWait(wk[i].attempt))

\* C36: an attempt whose response is refused where it is examined (a
\* declared Content-Length above the maximum, like a bad status) fails
\* before any byte is written and without creating or changing any file,
\* and the failure goes the way of every error: a sleep and a new attempt
\* until the final attempt, then a failed result.
C36_DeclaredSizeRefused == [][C36_Step]_vars

\* A link whose every attempt was refused for its declared size: it failed
\* at the final attempt after max_retries + 1 requests, and no file exists
\* at the path it had chosen.
C36_Witness ==
    \E i \in Tasks :
        /\ wk[i].pc = "done"
        /\ wk[i].result.error = <<"File too large", MaxRetries>>
        /\ fetches[i] = AttemptsAllowed
        /\ wk[i].path \notin DOMAIN files
        /\ Len(waits[i]) = MaxRetries
----------------------------------------------------------------------------
(* One record per link.                                                    *)

\* C38: for every link handed to download_files record_download is invoked
\* exactly once, at the link's terminal transition, with the success flag
\* and the retry count of the link's DownloadResult; before that, while
\* failed attempts are retried, it is not invoked.
C38_OneRecordPerLink ==
    \A i \in Tasks :
        /\ ~Terminal(i) => wk[i].records = 0
        /\ Terminal(i) => wk[i].records = 1
        /\ wk[i].pc = "done"
             => /\ links[i] \in DOMAIN store
                /\ store[links[i]].success = wk[i].result.success
                /\ store[links[i]].retry_count = wk[i].result.retry_count
----------------------------------------------------------------------------
(* The statistics of filter_links.                                         *)

\* C39: in the statistics returned by filter_links, total_links is the sum
\* of duplicate_links, already_downloaded, rule_filtered, llm_filtered and
\* filtered_links on every path, the fallback to the rule filter's
\* survivors included, and none of the five terms is negative.
C39_StatsPartitionInput ==
    fl.pc = "done"
        => /\ fl.stats.total_links =
                  fl.stats.duplicate_links + fl.stats.already_downloaded
                    + fl.stats.rule_filtered + fl.stats.llm_filtered
                    + fl.stats.filtered_links
           /\ fl.stats.duplicate_links >= 0
           /\ fl.stats.already_downloaded >= 0
           /\ fl.stats.rule_filtered >= 0
           /\ fl.stats.llm_filtered >= 0
           /\ fl.stats.filtered_links >= 0
====
